---- MODULE Spec2Model ----
(***************************************************************************)
(* Model of the Spring dependency analyser: the Java source classifier     *)
(* (analyze.py, JavaSpringParser), the cross-link resolver                 *)
(* (analyze_dependencies), the impact-analysis query                       *)
(* (DependencyVisualizer.get_impact_analysis) and the graph store adapter  *)
(* (neo4j_store.py, Neo4jStore).                                           *)
(*                                                                         *)
(* Strings of the program are sequences of tokens, so that concatenation,  *)
(* strip('"'), endswith('DTO'), replace(), upper() and lower() are         *)
(* computed and not assumed.  Python's None is the one-token string None.  *)
(***************************************************************************)
EXTENDS Integers, Sequences, FiniteSets, TLC

\* ------------------------------------------------------------------ bounds
\* annotations on one handler method
MaxAnns == 2
\* parameters of one handler method
MaxParams == 2
\* files of one analysed project
MaxFiles == 4
\* runs of analyze_dependencies on one parser object
MaxRuns == 2
\* repositories of one manifest
MaxRepos == 2
\* runs of the whole pipeline over one manifest
PipelineRuns == 2
\* source files of one checkout given to the Feign client parser
MaxClients == 2
\* endpoint upserts issued against one store
MaxUpserts == 3

\* ----------------------------------------------------------------- strings
None == <<"<None>">>
Quote == "\""
DTO == <<"DTO">>

\* x is truthy in Python: neither None nor the empty string
Truthy(x) == x # None /\ x # <<>>

\* str.endswith(suffix)
EndsWith(s, suffix) ==
    /\ Len(s) >= Len(suffix)
    /\ SubSeq(s, Len(s) - Len(suffix) + 1, Len(s)) = suffix

\* suffix in s
Contains(s, sub) ==
    \E i \in 1..(Len(s) - Len(sub) + 1) : SubSeq(s, i, i + Len(sub) - 1) = sub

RECURSIVE LStrip(_, _)
LStrip(s, ch) ==
    IF s # <<>> /\ Head(s) = ch THEN LStrip(Tail(s), ch) ELSE s

RECURSIVE RStrip(_, _)
RStrip(s, ch) ==
    IF s # <<>> /\ s[Len(s)] = ch THEN RStrip(SubSeq(s, 1, Len(s) - 1), ch) ELSE s

\* str.strip(ch)
Strip(s, ch) == RStrip(LStrip(s, ch), ch)

\* str.replace(tok, '')
Remove(s, tok) == SelectSeq(s, LAMBDA t : t # tok)

UpperTok(t) ==
    CASE t = "Get" -> "GET"
      [] t = "Post" -> "POST"
      [] t = "Put" -> "PUT"
      [] t = "Delete" -> "DELETE"
      [] t = "Patch" -> "PATCH"
      [] t = "Request" -> "REQUEST"
      [] t = "Override" -> "OVERRIDE"
      [] OTHER -> t

\* str.upper()
Upper(s) == [i \in DOMAIN s |-> UpperTok(s[i])]

LowerTok(t) ==
    CASE t = "Order" -> "order"
      [] t = "Item" -> "item"
      [] t = "DTO" -> "dto"
      [] OTHER -> t

\* str.lower()
Lower(s) == [i \in DOMAIN s |-> LowerTok(s[i])]

\* a Java string literal as the syntax tree holds it, quotes included
Quoted(s) == <<Quote>> \o s \o <<Quote>>

\* the elements of a sequence
Range(s) == {s[i] : i \in DOMAIN s}

\* the sequences over S of length at most n
SeqUpTo(S, n) == UNION {[1..k -> S] : k \in 0..n}

\* the sequences without repetition over S of length at most n
DistinctSeqUpTo(S, n) ==
    {s \in SeqUpTo(S, n) : \A i, j \in DOMAIN s : i # j => s[i] # s[j]}

\* the orders in which a set can be listed
ListingsOf(S) == {s \in [1..Cardinality(S) -> S] : Range(s) = S}

\* ------------------------------------------------- ordered dictionaries
\* A Python dict: its keys in insertion order, and the value of each key.
EmptyDict == [keys |-> <<>>, val |-> <<>>]

Has(d, k) == k \in Range(d.keys)

KeyIndex(d, k) == CHOOSE i \in DOMAIN d.keys : d.keys[i] = k

Get(d, k) == d.val[KeyIndex(d, k)]

\* d[k] = v: a new key goes last, an existing key keeps its place
Put(d, k, v) ==
    IF Has(d, k)
    THEN [d EXCEPT !.val[KeyIndex(d, k)] = v]
    ELSE [keys |-> Append(d.keys, k), val |-> Append(d.val, v)]

KeySet(d) == Range(d.keys)

\* ------------------------------------------------------- the syntax tree
\* What the Java parser hands over: a compilation unit is a sequence of class
\* declarations; a declaration has a name, annotations, fields and methods.
Ann(name, arguments) == [name |-> name, arguments |-> arguments]
Literal(value) == [kind |-> "Literal", name |-> None, value |-> value]
ElementValuePair(name, value) == [kind |-> "ElementValuePair", name |-> name, value |-> value]
Field(type, declarators, annotations) ==
    [type |-> type, declarators |-> declarators, annotations |-> annotations]
Method(name, annotations, parameters, return_type) ==
    [name |-> name, annotations |-> annotations, parameters |-> parameters,
     return_type |-> return_type]
ClassDecl(name, annotations, fields, methods) ==
    [name |-> name, annotations |-> annotations, fields |-> fields, methods |-> methods]

\* what read_text meets in a file that cannot be read
Unreadable == {"<unreadable>"}

\* what a file that is not valid Java holds in place of a syntax tree
SyntaxError == <<[kind |-> "SyntaxError"]>>

\* the None that parse_java_file returns in place of a syntax tree
NoTree == <<[kind |-> "None"]>>

\* what a parser that recovers from the error would hand over: the
\* declarations that precede it
parse_java_file_recovering(file) ==
    IF file.tree = SyntaxError THEN file.head ELSE file.tree

\* parse_java_file: the types of the compilation unit, or None when reading or
\* parsing raised (the error is logged)
parse_java_file(file) ==
    IF file.tree = SyntaxError THEN NoTree ELSE file.tree

RestController == <<"Rest", "Controller">>
RequestMapping == <<"Request", "Mapping">>
GetMapping == <<"Get", "Mapping">>
PostMapping == <<"Post", "Mapping">>
PutMapping == <<"Put", "Mapping">>
DeleteMapping == <<"Delete", "Mapping">>
PatchMapping == <<"Patch", "Mapping">>
Override == <<"Override">>
Entity == <<"Entity">>
Table == <<"Table">>
Service == <<"Service">>

HasAnnotation(class_decl, name) ==
    \E i \in DOMAIN class_decl.annotations : class_decl.annotations[i].name = name

\* ------------------------------------------------- controller classifier
mapping_annotations ==
    {GetMapping, PostMapping, PutMapping, DeleteMapping, PatchMapping, RequestMapping}

HttpMethods == {<<"GET">>, <<"POST">>, <<"PUT">>, <<"DELETE">>, <<"PATCH">>}

\* variant: the verb-agnostic marker is not defaulted to GET
http_method_no_default(ann_name) == Upper(Remove(ann_name, "Mapping"))

\* ann.name.replace('Mapping', '').upper(), REQUEST read as GET
http_method_of(ann_name) ==
    LET http_method == Upper(Remove(ann_name, "Mapping"))
    IN  IF http_method = <<"REQUEST">> THEN <<"GET">> ELSE http_method

\* variant: the handler's fragment goes before what is already there
RECURSIVE prepend_literals(_, _)
prepend_literals(arguments, path) ==
    IF arguments = <<>> THEN path
    ELSE prepend_literals(Tail(arguments),
            IF Head(arguments).kind = "Literal"
            THEN Strip(Head(arguments).value, Quote) \o path
            ELSE path)

\* for arg in ann.arguments: if Literal: path += arg.value.strip('"')
RECURSIVE append_literals(_, _)
append_literals(arguments, path) ==
    IF arguments = <<>> THEN path
    ELSE append_literals(Tail(arguments),
            IF Head(arguments).kind = "Literal"
            THEN path \o Strip(Head(arguments).value, Quote)
            ELSE path)

\* for param in parameters: if param.type.name.endswith('DTO'): request_dto = it
RECURSIVE request_dto_of(_, _)
request_dto_of(parameters, request_dto) ==
    IF parameters = <<>> THEN request_dto
    ELSE request_dto_of(Tail(parameters),
            IF EndsWith(Head(parameters).type, DTO)
            THEN Head(parameters).type
            ELSE request_dto)

\* the return type's name when it ends with DTO; a void method has no type name
response_dto_of(return_type) ==
    IF return_type # None /\ EndsWith(return_type, DTO) THEN return_type ELSE None

\* The endpoint of a handler method, as a list of one, or the empty list for
\* Python's None: the first annotation that is a mapping annotation decides.
parse_endpoint_method(method, class_name, base_path) ==
    LET hits == {i \in DOMAIN method.annotations :
                    method.annotations[i].name \in mapping_annotations}
    IN  IF hits = {} THEN <<>>
        ELSE LET ann == method.annotations[CHOOSE i \in hits : \A j \in hits : i <= j]
             IN  << [path |-> append_literals(ann.arguments, base_path),
                     method |-> http_method_of(ann.name),
                     controller_class |-> class_name,
                     method_name |-> method.name,
                     request_dto |-> request_dto_of(method.parameters, None),
                     response_dto |-> response_dto_of(method.return_type),
                     service_calls |-> <<>>] >>

\* for arg in ann.arguments: if Literal: base_path = arg.value.strip('"')
RECURSIVE last_literal(_, _)
last_literal(arguments, base_path) ==
    IF arguments = <<>> THEN base_path
    ELSE last_literal(Tail(arguments),
            IF Head(arguments).kind = "Literal"
            THEN Strip(Head(arguments).value, Quote)
            ELSE base_path)

\* the base path a controller class declares with RequestMapping, "" if none
RECURSIVE base_path_of(_, _)
base_path_of(annotations, base_path) ==
    IF annotations = <<>> THEN base_path
    ELSE base_path_of(Tail(annotations),
            IF Head(annotations).name = RequestMapping
            THEN last_literal(Head(annotations).arguments, base_path)
            ELSE base_path)

\* for method in class_decl.methods: append its endpoint, if it has one
RECURSIVE endpoints_of_methods(_, _, _, _)
endpoints_of_methods(methods, class_name, base_path, acc) ==
    IF methods = <<>> THEN acc
    ELSE endpoints_of_methods(Tail(methods), class_name, base_path,
            acc \o parse_endpoint_method(Head(methods), class_name, base_path))

\* parse_controller on a parsed file: the endpoint list afterwards
RECURSIVE parse_controller(_, _)
parse_controller(tree, acc) ==
    IF tree = NoTree \/ tree = <<>> THEN acc
    ELSE parse_controller(Tail(tree),
            IF HasAnnotation(Head(tree), RestController)
            THEN endpoints_of_methods(Head(tree).methods, Head(tree).name,
                    base_path_of(Head(tree).annotations, <<>>), acc)
            ELSE acc)

\* ------------------------------------------------------ DTO classifier
\* for declarator in field.declarators: fields[declarator.name] = field_type
RECURSIVE put_declarators(_, _, _)
put_declarators(declarators, field_type, fields) ==
    IF declarators = <<>> THEN fields
    ELSE put_declarators(Tail(declarators), field_type,
            Put(fields, Head(declarators), field_type))

\* the field-name -> declared-type dictionary of a class
RECURSIVE fields_of(_, _)
fields_of(class_fields, fields) ==
    IF class_fields = <<>> THEN fields
    ELSE fields_of(Tail(class_fields),
            put_declarators(Head(class_fields).declarators, Head(class_fields).type, fields))

DtoInfo(name, fields) ==
    [name |-> name, fields |-> fields, used_in_controllers |-> <<>>,
     used_in_services |-> <<>>, mapped_to_entities |-> <<>>]

\* a parse_dto that adds the fields to those an earlier declaration left
RECURSIVE parse_dto_merging(_, _)
parse_dto_merging(tree, acc) ==
    IF tree = NoTree \/ tree = <<>> THEN acc
    ELSE parse_dto_merging(Tail(tree),
            IF EndsWith(Head(tree).name, DTO)
            THEN Put(acc, Head(tree).name,
                     DtoInfo(Head(tree).name,
                         fields_of(Head(tree).fields,
                             IF Has(acc, Head(tree).name)
                             THEN Get(acc, Head(tree).name).fields ELSE EmptyDict)))
            ELSE acc)

\* parse_dto on a parsed file: the DTO collection afterwards
RECURSIVE parse_dto(_, _)
parse_dto(tree, acc) ==
    IF tree = NoTree \/ tree = <<>> THEN acc
    ELSE parse_dto(Tail(tree),
            IF EndsWith(Head(tree).name, DTO)
            THEN Put(acc, Head(tree).name,
                     DtoInfo(Head(tree).name, fields_of(Head(tree).fields, EmptyDict)))
            ELSE acc)

\* --------------------------------------------------- entity classifier
relationship_annotations ==
    {<<"OneToMany">>, <<"ManyToOne">>, <<"OneToOne">>, <<"ManyToMany">>}

\* for arg in ann.arguments: a pair named 'name' sets the table name
RECURSIVE table_name_of_arguments(_, _)
table_name_of_arguments(arguments, table_name) ==
    IF arguments = <<>> THEN table_name
    ELSE table_name_of_arguments(Tail(arguments),
            IF Head(arguments).kind = "ElementValuePair" /\ Head(arguments).name = <<"name">>
            THEN Strip(Head(arguments).value, Quote)
            ELSE table_name)

\* the table name: the lower-cased class name unless a Table annotation names one
RECURSIVE table_name_of(_, _)
table_name_of(annotations, table_name) ==
    IF annotations = <<>> THEN table_name
    ELSE table_name_of(Tail(annotations),
            IF Head(annotations).name = Table
            THEN table_name_of_arguments(Head(annotations).arguments, table_name)
            ELSE table_name)

\* for ann in field.annotations: a relationship annotation adds a record
RECURSIVE relationships_of_annotations(_, _, _, _)
relationships_of_annotations(annotations, declarator, field_type, acc) ==
    IF annotations = <<>> THEN acc
    ELSE relationships_of_annotations(Tail(annotations), declarator, field_type,
            IF Head(annotations).name \in relationship_annotations
            THEN Append(acc, [type |-> Head(annotations).name, field |-> declarator,
                              target_entity |-> field_type])
            ELSE acc)

RECURSIVE relationships_of_declarators(_, _, _, _)
relationships_of_declarators(declarators, annotations, field_type, acc) ==
    IF declarators = <<>> THEN acc
    ELSE relationships_of_declarators(Tail(declarators), annotations, field_type,
            relationships_of_annotations(annotations, Head(declarators), field_type, acc))

\* the relationship records of a class, in field and annotation order
RECURSIVE relationships_of(_, _)
relationships_of(class_fields, acc) ==
    IF class_fields = <<>> THEN acc
    ELSE relationships_of(Tail(class_fields),
            relationships_of_declarators(Head(class_fields).declarators,
                Head(class_fields).annotations, Head(class_fields).type, acc))

EntityInfo(name, table_name, fields, relationships) ==
    [name |-> name, table_name |-> table_name, fields |-> fields,
     relationships |-> relationships, mapped_to_dtos |-> <<>>]

\* parse_entity on a parsed file: the entity collection afterwards
RECURSIVE parse_entity(_, _)
parse_entity(tree, acc) ==
    IF tree = NoTree \/ tree = <<>> THEN acc
    ELSE parse_entity(Tail(tree),
            IF HasAnnotation(Head(tree), Entity)
            THEN Put(acc, Head(tree).name,
                     EntityInfo(Head(tree).name,
                         table_name_of(Head(tree).annotations, Lower(Head(tree).name)),
                         fields_of(Head(tree).fields, EmptyDict),
                         relationships_of(Head(tree).fields, <<>>)))
            ELSE acc)

\* -------------------------------------------------- service classifier
\* the type names a method mentions: its return type, then its parameter types
types_of_method(method) ==
    (IF method.return_type # None THEN {method.return_type} ELSE {})
        \cup {method.parameters[i].type : i \in DOMAIN method.parameters}

\* used_dtos: every mentioned type whose name ends with DTO
used_dtos_of(methods) ==
    {t \in UNION {types_of_method(methods[i]) : i \in DOMAIN methods} : EndsWith(t, DTO)}

\* used_entities: every other mentioned type that is a key of the entity
\* collection as it stands when the service is parsed
used_entities_of(methods, known_entities) ==
    {t \in UNION {types_of_method(methods[i]) : i \in DOMAIN methods} :
        ~EndsWith(t, DTO) /\ Has(known_entities, t)}

ServiceInfo(name, methods, used_dtos, used_entities) ==
    [name |-> name, methods |-> methods, used_dtos |-> used_dtos,
     used_entities |-> used_entities, called_by_controllers |-> <<>>]

method_names(methods) == [i \in DOMAIN methods |-> methods[i].name]

\* parse_service on a parsed file: the service collections it can leave, one
\* for each order in which list(set) lists used_dtos and used_entities
RECURSIVE parse_service(_, _, _)
parse_service(tree, acc, known_entities) ==
    IF tree = NoTree \/ tree = <<>> THEN {acc}
    ELSE IF HasAnnotation(Head(tree), Service)
         THEN UNION { parse_service(Tail(tree),
                          Put(acc, Head(tree).name,
                              ServiceInfo(Head(tree).name, method_names(Head(tree).methods),
                                          ud, ue)),
                          known_entities) :
                      ud \in ListingsOf(used_dtos_of(Head(tree).methods)),
                      ue \in ListingsOf(used_entities_of(Head(tree).methods, known_entities)) }
         ELSE parse_service(Tail(tree), acc, known_entities)

\* ------------------------------------------------ cross-link resolver
\* if dto_name: dtos[dto_name].used_in_controllers.append(c), the name known or not
append_controller_creating(all_dtos, dto_name, controller_class) ==
    IF ~Truthy(dto_name) THEN all_dtos
    ELSE IF Has(all_dtos, dto_name)
    THEN [all_dtos EXCEPT !.val[KeyIndex(all_dtos, dto_name)].used_in_controllers =
                Append(@, controller_class)]
    ELSE Put(all_dtos, dto_name,
             [DtoInfo(dto_name, EmptyDict) EXCEPT !.used_in_controllers = <<controller_class>>])

\* if dto_name and dto_name in dtos: dtos[dto_name].used_in_controllers.append(c)
append_controller(all_dtos, dto_name, controller_class) ==
    IF Truthy(dto_name) /\ Has(all_dtos, dto_name)
    THEN [all_dtos EXCEPT !.val[KeyIndex(all_dtos, dto_name)].used_in_controllers =
                Append(@, controller_class)]
    ELSE all_dtos

\* a first loop that looks at request DTOs alone
RECURSIVE link_endpoints_request_only(_, _)
link_endpoints_request_only(all_endpoints, all_dtos) ==
    IF all_endpoints = <<>> THEN all_dtos
    ELSE link_endpoints_request_only(Tail(all_endpoints),
            append_controller(all_dtos, Head(all_endpoints).request_dto,
                              Head(all_endpoints).controller_class))

\* first loop of analyze_dependencies: endpoint -> DTO back-links
RECURSIVE link_endpoints(_, _)
link_endpoints(all_endpoints, all_dtos) ==
    IF all_endpoints = <<>> THEN all_dtos
    ELSE link_endpoints(Tail(all_endpoints),
            append_controller(
                append_controller(all_dtos, Head(all_endpoints).request_dto,
                                  Head(all_endpoints).controller_class),
                Head(all_endpoints).response_dto, Head(all_endpoints).controller_class))

\* variant: a field matches only when name and declared type both agree
matching_fields_typed(dto, entity) ==
    {k \in KeySet(dto.fields) \cap KeySet(entity.fields) :
        Get(dto.fields, k) = Get(entity.fields, k)}

\* set(dto.fields.keys()) & set(entity.fields.keys())
matching_fields(dto, entity) == KeySet(dto.fields) \cap KeySet(entity.fields)

\* second loop of analyze_dependencies: for each DTO i, for each entity j, in
\* dictionary order, a non-empty field-name intersection appends both links
RECURSIVE link_entities(_, _, _, _)
link_entities(i, j, all_dtos, all_entities) ==
    IF i > Len(all_dtos.keys) THEN [dtos |-> all_dtos, entities |-> all_entities]
    ELSE IF j > Len(all_entities.keys) THEN link_entities(i + 1, 1, all_dtos, all_entities)
    ELSE IF matching_fields(all_dtos.val[i], all_entities.val[j]) # {}
         THEN link_entities(i, j + 1,
                [all_dtos EXCEPT !.val[i].mapped_to_entities =
                        Append(@, all_entities.keys[j])],
                [all_entities EXCEPT !.val[j].mapped_to_dtos =
                        Append(@, all_dtos.keys[i])])
         ELSE link_entities(i, j + 1, all_dtos, all_entities)

\* analyze_dependencies: the DTO and entity collections afterwards
analyze_dependencies(all_endpoints, all_dtos, all_entities) ==
    link_entities(1, 1, link_endpoints(all_endpoints, all_dtos), all_entities)

\* ---------------------------------------------------- impact analysis
\* {"error": f"DTO {dto_name} not found"}
NotFound(dto_name) == [error |-> <<"DTO ">> \o dto_name \o <<" not found">>]

\* for entity_name in dto.mapped_to_entities: if known, append its table name
RECURSIVE affected_tables_of(_, _, _)
affected_tables_of(mapped_to_entities, all_entities, acc) ==
    IF mapped_to_entities = <<>> THEN acc
    ELSE affected_tables_of(Tail(mapped_to_entities), all_entities,
            IF Has(all_entities, Head(mapped_to_entities))
            THEN Append(acc, Get(all_entities, Head(mapped_to_entities)).table_name)
            ELSE acc)

\* the endpoints whose request is the DTO, responses not looked at
endpoints_by_request(graph, dto_name) ==
    SelectSeq(graph.endpoints, LAMBDA e : e.request_dto = dto_name)

\* the endpoints whose request or response is the DTO
affected_endpoints_of(graph, dto_name) ==
    SelectSeq(graph.endpoints,
        LAMBDA e : e.request_dto = dto_name \/ e.response_dto = dto_name)

\* every service, whether it uses the DTO or not
every_service(graph, dto_name) == graph.services.keys

\* the names of the services whose used_dtos holds the DTO
affected_services_of(graph, dto_name) ==
    SelectSeq(graph.services.keys,
        LAMBDA n : dto_name \in Range(Get(graph.services, n).used_dtos))

\* the table names reached through the DTO's matched entities
affected_tables(dto, all_entities) ==
    affected_tables_of(dto.mapped_to_entities, all_entities, <<>>)

\* the result for a DTO of the graph
found_result(graph, dto_name) ==
    [dto |-> dto_name,
     affected_endpoints |->
        [i \in DOMAIN affected_endpoints_of(graph, dto_name) |->
            [method |-> affected_endpoints_of(graph, dto_name)[i].method,
             path |-> affected_endpoints_of(graph, dto_name)[i].path]],
     affected_services |-> affected_services_of(graph, dto_name),
     affected_database_tables |-> affected_tables(Get(graph.dtos, dto_name), graph.entities),
     field_mappings |-> Get(graph.dtos, dto_name).fields]

\* a lookup that answers an unknown name with an empty found result
get_impact_analysis_lenient(graph, dto_name) ==
    IF ~Has(graph.dtos, dto_name)
    THEN [dto |-> dto_name, affected_endpoints |-> <<>>, affected_services |-> <<>>,
          affected_database_tables |-> <<>>, field_mappings |-> EmptyDict]
    ELSE found_result(graph, dto_name)

\* DependencyVisualizer.get_impact_analysis on a dependency graph
get_impact_analysis(graph, dto_name) ==
    IF ~Has(graph.dtos, dto_name) THEN NotFound(dto_name)
    ELSE found_result(graph, dto_name)

\* ------------------------------------------------------ the graph store
\* The database: nodes in creation order (a node's index is its identity), each
\* a label and a property record, and relationships in creation order, each a
\* type, the indexes it joins and a property record.
EmptyStore == [nodes |-> <<>>, edges |-> <<>>]

NoProps == [k \in {} |-> None]

\* variant: no constraint was created
no_unique_property(label) == {}

\* _init_constraints: the property each label must keep unique
unique_property(label) ==
    CASE label = "Endpoint" -> {"unique_id"}
      [] label = "DTO" -> {"name"}
      [] label = "Entity" -> {"name"}
      [] label = "Service" -> {"name"}
      [] label = "Repository" -> {"name"}
      [] label = "ServiceCall" -> {"unique_id"}
      [] label = "ServiceDefinition" -> {"service_name"}
      [] OTHER -> {}

\* a pattern (label {props}) matches a node that has the label and every
\* property of the pattern with the same value
Matches(node, label, props) ==
    /\ node.label = label
    /\ \A k \in DOMAIN props : k \in DOMAIN node.props /\ node.props[k] = props[k]

MatchingNodes(st, label, props) ==
    {i \in DOMAIN st.nodes : Matches(st.nodes[i], label, props)}

\* creating (label {props}) would break a uniqueness constraint
BreaksConstraint(st, label, props) ==
    \E k \in unique_property(label) \cap DOMAIN props :
        \E i \in DOMAIN st.nodes :
            /\ st.nodes[i].label = label
            /\ k \in DOMAIN st.nodes[i].props
            /\ st.nodes[i].props[k] = props[k]

\* A query runs as one transaction tx = [ok, nodes, edges]; once a clause has
\* failed, ok is FALSE and the later clauses do nothing.
Begin(st) == [ok |-> TRUE, nodes |-> st.nodes, edges |-> st.edges]

\* the database after the query: unchanged when the query failed
Commit(st, tx) == IF tx.ok THEN [nodes |-> tx.nodes, edges |-> tx.edges] ELSE st

Failed(tx) == [tx EXCEPT !.ok = FALSE]

\* MERGE (n:label {props}): binds the matching node, or creates the node; fails
\* on a null property value and on a broken uniqueness constraint
merge_node(tx, label, props) ==
    IF ~tx.ok THEN tx
    ELSE IF \E k \in DOMAIN props : props[k] = None THEN Failed(tx)
    ELSE IF MatchingNodes(tx, label, props) # {} THEN tx
    ELSE IF BreaksConstraint(tx, label, props) THEN Failed(tx)
    ELSE [tx EXCEPT !.nodes = Append(@, [label |-> label, props |-> props])]

\* the node a MATCH or a completed MERGE of (n:label {props}) binds; 0 if none
node_of(tx, label, props) ==
    IF MatchingNodes(tx, label, props) = {} THEN 0
    ELSE CHOOSE i \in MatchingNodes(tx, label, props) :
            \A j \in MatchingNodes(tx, label, props) : i <= j

\* MERGE (src)-[:type {props}]->(dst) between bound nodes
merge_edge(tx, type, src, dst, props) ==
    IF ~tx.ok \/ src = 0 \/ dst = 0 THEN tx
    ELSE IF \E i \in DOMAIN tx.edges :
                /\ tx.edges[i].type = type /\ tx.edges[i].src = src /\ tx.edges[i].dst = dst
                /\ \A k \in DOMAIN props :
                      k \in DOMAIN tx.edges[i].props /\ tx.edges[i].props[k] = props[k]
         THEN tx
         ELSE [tx EXCEPT !.edges =
                    Append(@, [type |-> type, src |-> src, dst |-> dst, props |-> props])]

\* SET n.k = v for every k of props
set_properties(tx, n, props) ==
    IF ~tx.ok \/ n = 0 THEN tx
    ELSE [tx EXCEPT !.nodes[n].props =
            [k \in (DOMAIN @) \cup (DOMAIN props) |->
                IF k \in DOMAIN props THEN props[k] ELSE @[k]]]

\* MERGE (d:label {name: name}) MERGE (src)-[:type {props}]->(d)
merge_linked(tx, type, src, label, name, props) ==
    LET merged == merge_node(tx, label, [name |-> name])
    IN  merge_edge(merged, type, src, node_of(merged, label, [name |-> name]), props)

\* UNWIND names AS name MERGE (d:label {name: name}) MERGE (src)-[:type]->(d)
RECURSIVE merge_each(_, _, _, _, _, _)
merge_each(tx, type, src, label, names, props) ==
    IF names = <<>> THEN tx
    ELSE merge_each(merge_linked(tx, type, src, label, Head(names), props),
                    type, src, label, Tail(names), props)

\* the first query of store_repository_data: repository and service definition
store_definition(st, repo_name, friendly_name, service_name, base_path) ==
    LET sd == [repository_name |-> repo_name, friendly_name |-> friendly_name,
               service_name |-> service_name, base_path |-> base_path]
        t1 == merge_node(Begin(st), "Repository", [name |-> repo_name])
        t2 == merge_node(t1, "ServiceDefinition", sd)
    IN  merge_edge(t2, "DEFINES", node_of(t2, "Repository", [name |-> repo_name]),
                   node_of(t2, "ServiceDefinition", sd), NoProps)

\* FOREACH (dto_name IN CASE WHEN $dto IS NOT NULL THEN [$dto] ELSE [] END | ...)
merge_optional_dto(tx, type, src, dto_name) ==
    IF dto_name = None THEN tx ELSE merge_linked(tx, type, src, "DTO", dto_name, NoProps)

unique_id_of(a, b, c) == a \o <<"_">> \o b \o <<"_">> \o c

\* _store_endpoint: the query's transaction
store_endpoint(st, repo_name, endpoint) ==
    LET r == node_of(Begin(st), "Repository", [name |-> repo_name])
        e == [path |-> endpoint.path, method |-> endpoint.method,
              controller_class |-> endpoint.controller_class,
              method_name |-> endpoint.method_name, repository |-> repo_name,
              unique_id |-> unique_id_of(repo_name, endpoint.controller_class,
                                         endpoint.method_name)]
        t1 == merge_node(Begin(st), "Endpoint", e)
        n == node_of(t1, "Endpoint", e)
        t2 == merge_edge(t1, "BELONGS_TO", n, r, NoProps)
        t3 == merge_optional_dto(t2, "USES_REQUEST_DTO", n, endpoint.request_dto)
    IN  IF r = 0 THEN Begin(st)
        ELSE merge_optional_dto(t3, "RETURNS_RESPONSE_DTO", n, endpoint.response_dto)

\* ','.join(f"{k}:{v}" for k, v in fields.items())
RECURSIVE fields_str_of(_, _)
fields_str_of(fields, i) ==
    IF i > Len(fields.keys) THEN <<>>
    ELSE (IF i > 1 THEN <<",">> ELSE <<>>) \o fields.keys[i] \o <<":">> \o fields.val[i]
            \o fields_str_of(fields, i + 1)

\* _store_dto: the query's transaction.  UNWIND of an empty list leaves no row,
\* so nothing after it runs.
store_dto(st, repo_name, dto_name, dto_info) ==
    LET r == node_of(Begin(st), "Repository", [name |-> repo_name])
        t1 == merge_node(Begin(st), "DTO", [name |-> dto_name])
        n == node_of(t1, "DTO", [name |-> dto_name])
        t2 == set_properties(t1, n, [fields |-> fields_str_of(dto_info.fields, 1)])
        t3 == merge_edge(t2, "BELONGS_TO", n, r, NoProps)
        t4 == merge_each(t3, "USED_IN", n, "Controller", dto_info.used_in_controllers, NoProps)
    IN  IF r = 0 THEN Begin(st)
        ELSE IF dto_info.used_in_controllers = <<>> THEN t3
        ELSE merge_each(t4, "MAPS_TO", n, "Entity", dto_info.mapped_to_entities, NoProps)

\* UNWIND $relationships AS rel MERGE (target) MERGE (e)-[:RELATES_TO {..}]->(target)
RECURSIVE merge_relationships(_, _, _)
merge_relationships(tx, src, relationships) ==
    IF relationships = <<>> THEN tx
    ELSE merge_relationships(
            merge_linked(tx, "RELATES_TO", src, "Entity", Head(relationships).target_entity,
                         [type |-> Head(relationships).type,
                          field |-> Head(relationships).field]),
            src, Tail(relationships))

\* _store_entity: the query's transaction
store_entity(st, repo_name, entity_name, entity_info) ==
    LET r == node_of(Begin(st), "Repository", [name |-> repo_name])
        t1 == merge_node(Begin(st), "Entity", [name |-> entity_name])
        n == node_of(t1, "Entity", [name |-> entity_name])
        t2 == set_properties(t1, n, [table_name |-> entity_info.table_name,
                                     fields |-> fields_str_of(entity_info.fields, 1)])
        t3 == merge_edge(t2, "BELONGS_TO", n, r, NoProps)
    IN  IF r = 0 THEN Begin(st)
        ELSE merge_relationships(t3, n, entity_info.relationships)

\* _store_service: the query's transaction
store_service(st, repo_name, service_name, service_info) ==
    LET r == node_of(Begin(st), "Repository", [name |-> repo_name])
        t1 == merge_node(Begin(st), "Service", [name |-> service_name])
        n == node_of(t1, "Service", [name |-> service_name])
        t2 == set_properties(t1, n, [methods |-> service_info.methods])
        t3 == merge_edge(t2, "BELONGS_TO", n, r, NoProps)
        t4 == merge_each(t3, "USES_DTO", n, "DTO", service_info.used_dtos,
                         [methods |-> service_info.methods])
    IN  IF r = 0 THEN Begin(st)
        ELSE IF service_info.used_dtos = <<>> THEN t3
        ELSE merge_each(t4, "USES_ENTITY", n, "Entity", service_info.used_entities,
                        [methods |-> service_info.methods])

\* MATCH (n:label {props}): a null value matches nothing
match_node(tx, label, props) ==
    IF \E k \in DOMAIN props : props[k] = None THEN 0 ELSE node_of(tx, label, props)

\* store_service_calls, one call: the query's transaction
store_service_call(st, repo_name, call) ==
    LET r == match_node(Begin(st), "Repository", [name |-> repo_name])
        sd1 == match_node(Begin(st), "ServiceDefinition", [service_name |-> call.source_service])
        sd2 == match_node(Begin(st), "ServiceDefinition", [service_name |-> call.target_service])
        sc == [unique_id |-> unique_id_of(call.source_service, call.interface_name,
                                          call.method_name),
               interface_name |-> call.interface_name, method_name |-> call.method_name,
               http_method |-> call.http_method, path |-> call.path,
               url_value |-> call.url_value, has_fallback |-> call.has_fallback]
        t1 == merge_node(Begin(st), "ServiceCall", sc)
        n == node_of(t1, "ServiceCall", sc)
        t2 == merge_edge(t1, "BELONGS_TO", n, r, NoProps)
        t3 == merge_edge(t2, "CALLS", sd1, n, NoProps)
        t4 == merge_edge(t3, "TARGETS", n, sd2, NoProps)
        t5 == merge_optional_dto(t4, "USES_REQUEST_DTO", n, call.request_dto)
    IN  IF r = 0 \/ sd1 = 0 \/ sd2 = 0 THEN Begin(st)
        ELSE merge_optional_dto(t5, "RETURNS_RESPONSE_DTO", n, call.response_dto)

\* store_service_calls: the calls in order, each its own transaction; the first
\* failing one raises out of the loop.  [store, raised]
RECURSIVE store_service_calls(_, _, _)
store_service_calls(st, repo_name, service_calls) ==
    IF service_calls = <<>> THEN [store |-> st, raised |-> FALSE]
    ELSE LET tx == store_service_call(st, repo_name, Head(service_calls))
         IN  IF tx.ok THEN store_service_calls(Commit(st, tx), repo_name, Tail(service_calls))
             ELSE [store |-> st, raised |-> TRUE]

\* for endpoint in endpoints: try _store_endpoint, log a failure and go on
RECURSIVE store_endpoints(_, _, _)
store_endpoints(st, repo_name, all_endpoints) ==
    IF all_endpoints = <<>> THEN st
    ELSE store_endpoints(Commit(st, store_endpoint(st, repo_name, Head(all_endpoints))),
                         repo_name, Tail(all_endpoints))

\* for dto_name, dto_info in dtos.items(): try _store_dto, log a failure and go on
RECURSIVE store_dtos(_, _, _, _)
store_dtos(st, repo_name, all_dtos, i) ==
    IF i > Len(all_dtos.keys) THEN st
    ELSE store_dtos(Commit(st, store_dto(st, repo_name, all_dtos.keys[i], all_dtos.val[i])),
                    repo_name, all_dtos, i + 1)

\* for entity_name, entity_info in entities.items(): try _store_entity
RECURSIVE store_entities(_, _, _, _)
store_entities(st, repo_name, all_entities, i) ==
    IF i > Len(all_entities.keys) THEN st
    ELSE store_entities(
            Commit(st, store_entity(st, repo_name, all_entities.keys[i], all_entities.val[i])),
            repo_name, all_entities, i + 1)

\* for service_name, service_info in services.items(): try _store_service
RECURSIVE store_services(_, _, _, _)
store_services(st, repo_name, all_services, i) ==
    IF i > Len(all_services.keys) THEN st
    ELSE store_services(
            Commit(st, store_service(st, repo_name, all_services.keys[i], all_services.val[i])),
            repo_name, all_services, i + 1)

\* store_repository_data: a failing first query raises; after it every upsert
\* is tried.  [store, raised]
store_repository_data(st, repo_name, friendly_name, service_name, base_path, data) ==
    LET tx == store_definition(st, repo_name, friendly_name, service_name, base_path)
        s1 == store_endpoints(Commit(st, tx), repo_name, data.endpoints)
        s2 == store_dtos(s1, repo_name, data.dtos, 1)
        s3 == store_entities(s2, repo_name, data.entities, 1)
    IN  IF ~tx.ok THEN [store |-> st, raised |-> TRUE]
        ELSE [store |-> store_services(s3, repo_name, data.services, 1), raised |-> FALSE]

EdgesOfType(st, type) == {i \in DOMAIN st.edges : st.edges[i].type = type}

\* get_cross_service_dependencies: the rows of
\* (r1:Repository)-[:CONTAINS]->(s1:Service)-[:USES_DTO]->(d:DTO)
\*      <-[:USES_DTO]-(s2:Service)<-[:CONTAINS]-(r2:Repository) WHERE r1 <> r2
get_cross_service_dependencies(st) ==
    { [from_repo |-> st.nodes[st.edges[c1].src].props.name,
       from_service |-> st.nodes[st.edges[u1].src].props.name,
       dto |-> st.nodes[st.edges[u1].dst].props.name,
       to_service |-> st.nodes[st.edges[u2].src].props.name,
       to_repo |-> st.nodes[st.edges[c2].src].props.name] :
        <<c1, u1, u2, c2>> \in
            { q \in EdgesOfType(st, "CONTAINS") \X EdgesOfType(st, "USES_DTO")
                        \X EdgesOfType(st, "USES_DTO") \X EdgesOfType(st, "CONTAINS") :
                /\ q[1] # q[4] /\ q[2] # q[3]
                /\ st.nodes[st.edges[q[1]].src].label = "Repository"
                /\ st.nodes[st.edges[q[1]].dst].label = "Service"
                /\ st.edges[q[2]].src = st.edges[q[1]].dst
                /\ st.nodes[st.edges[q[2]].dst].label = "DTO"
                /\ st.edges[q[3]].dst = st.edges[q[2]].dst
                /\ st.nodes[st.edges[q[3]].src].label = "Service"
                /\ st.edges[q[4]].dst = st.edges[q[3]].src
                /\ st.nodes[st.edges[q[4]].src].label = "Repository"
                /\ st.edges[q[1]].src # st.edges[q[4]].src } }

\* the nodes with a label that a relationship of one of the types joins to
\* node n: (n)<-[:type]-(m:label) when incoming, (n)-[:type]->(m:label) otherwise
Neighbours(st, n, types, label, incoming) ==
    { m \in DOMAIN st.nodes :
        /\ st.nodes[m].label = label
        /\ \E i \in DOMAIN st.edges :
              /\ st.edges[i].type \in types
              /\ IF incoming THEN st.edges[i].src = m /\ st.edges[i].dst = n
                             ELSE st.edges[i].src = n /\ st.edges[i].dst = m }

\* n.k: null when the node lacks the property
property_of(node, k) == IF k \in DOMAIN node.props THEN node.props[k] ELSE None

\* collect(DISTINCT n.k) over the nodes an OPTIONAL MATCH bound: nulls are left out
collect_property(st, bound, k) == {property_of(st.nodes[m], k) : m \in bound} \ {None}

\* collect(DISTINCT {method: e.method, path: e.path}): a map is never null, so
\* an OPTIONAL MATCH that bound nothing contributes the map of nulls
collect_endpoints(st, bound) ==
    IF bound = {} THEN {[method |-> None, path |-> None]}
    ELSE {[method |-> property_of(st.nodes[m], "method"),
           path |-> property_of(st.nodes[m], "path")] : m \in bound}

\* the exception result.single()["impact"] ends with when the query has no row
Raised == [raised |-> "TypeError"]

\* Neo4jStore.get_impact_analysis: MATCH (d:DTO {name: $dto_name}) with no node
\* gives no row, single() is None and subscripting it raises; a node gives the
\* one row of the aggregation
store_get_impact_analysis(st, dto_name) ==
    LET d == match_node(st, "DTO", [name |-> dto_name])
    IN  IF d = 0 THEN Raised
        ELSE [dto |-> st.nodes[d].props.name,
              affected_endpoints |->
                 collect_endpoints(st, Neighbours(st, d,
                     {"USES_REQUEST_DTO", "RETURNS_RESPONSE_DTO"}, "Endpoint", TRUE)),
              affected_services |->
                 collect_property(st, Neighbours(st, d, {"USES_DTO"}, "Service", TRUE), "name"),
              affected_tables |->
                 collect_property(st, Neighbours(st, d, {"MAPS_TO"}, "Entity", FALSE),
                                  "table_name"),
              field_mappings |-> property_of(st.nodes[d], "fields")]

\* get_all_repositories, as far as the report reads it: the repository and DTO
\* names of (r:Repository)<-[:BELONGS_TO]-(d:DTO)
stored_dtos(st) ==
    { <<st.nodes[st.edges[i].dst].props.name, st.nodes[st.edges[i].src].props.name>> :
        i \in { j \in EdgesOfType(st, "BELONGS_TO") :
                  /\ st.nodes[st.edges[j].src].label = "DTO"
                  /\ st.nodes[st.edges[j].dst].label = "Repository" } }

\* variant: close() that leaves the driver as it is
close_nothing(driver) == driver

\* Neo4jStore.close
close(driver) == "closed"

\* a read or write of the store: whether any was issued on a closed driver
used(driver, was_late) == was_late \/ driver = "closed"

\* ------------------------------------------------- the service registry
\* A path as the tokens between and including its "/" separators.
RECURSIVE split_last(_)
\* repo_path.split('/')[-1]
split_last(path) ==
    IF "/" \in Range(path) THEN split_last(Tail(path)) ELSE path

\* Path(repo_path).name: the last component, a trailing separator ignored
path_name(path) == split_last(RStrip(path, "/"))

ServiceMapping(repository_path, friendly_name, service_name, base_path) ==
    [repository_path |-> repository_path, friendly_name |-> friendly_name,
     service_name |-> service_name, base_path |-> base_path]

\* get_service_name: the service identifier the registry holds for the path
get_service_name(all_mappings, repo_path) ==
    IF split_last(repo_path) \in {<<"api">>, <<"v1">>} THEN None
    ELSE IF Has(all_mappings, split_last(repo_path))
    THEN Get(all_mappings, split_last(repo_path)).service_name
    ELSE None

\* get_friendly_name
get_friendly_name(all_mappings, repo_path) ==
    IF split_last(repo_path) \in {<<"api">>, <<"v1">>} THEN None
    ELSE IF Has(all_mappings, split_last(repo_path))
    THEN Get(all_mappings, split_last(repo_path)).friendly_name
    ELSE None

\* get_base_path
get_base_path(all_mappings, repo_path) ==
    IF split_last(repo_path) \in {<<"api">>, <<"v1">>} THEN None
    ELSE IF Has(all_mappings, split_last(repo_path))
    THEN Get(all_mappings, split_last(repo_path)).base_path
    ELSE None

\* load_from_repositories_file: each line of repositories.txt, as the parts
\* shlex.split gives, is registered when it has four parts, under the last
\* component of its first part as written; a later line replaces an earlier one
RECURSIVE load_from_repositories_file(_, _)
load_from_repositories_file(lines, all_mappings) ==
    IF lines = <<>> THEN all_mappings
    ELSE load_from_repositories_file(Tail(lines),
            IF Len(Head(lines)) < 4 \/ split_last(Head(lines)[1]) \in {<<"api">>, <<"v1">>}
            THEN all_mappings
            ELSE Put(all_mappings, split_last(Head(lines)[1]),
                     ServiceMapping(Head(lines)[1], Head(lines)[2], Head(lines)[3],
                                    Head(lines)[4])))

\* the components of a path: its tokens without the separators
components(path) == SelectSeq(path, LAMBDA t : t # "/" /\ t # ".")

RECURSIVE joined(_)
joined(parts) ==
    IF Len(parts) <= 1 THEN parts
    ELSE <<Head(parts), "/">> \o joined(Tail(parts))

\* os.path.normpath on paths without "..": repeated and trailing separators
\* and "." components are dropped
normpath(path) ==
    IF components(path) = <<>>
    THEN IF path # <<>> /\ Head(path) = "/" THEN <<"/">> ELSE <<".">>
    ELSE (IF Head(path) = "/" THEN <<"/">> ELSE <<>>) \o joined(components(path))

\* os.path.basename(dir_path.rstrip(os.sep))
basename(dir_path) == split_last(RStrip(dir_path, "/"))

\* repo_url.split('/')[-1].replace('.git', '')
repo_name_of_url(repo_url) == SelectSeq(split_last(repo_url), LAMBDA t : t # ".git")

\* the lines of application.properties, key = value, into a dictionary
RECURSIVE properties_of(_, _)
properties_of(lines, properties) ==
    IF lines = <<>> THEN properties
    ELSE properties_of(Tail(lines), Put(properties, Head(lines)[1], Head(lines)[2]))

\* load_application_properties: the configuration table of the repository
\* replaces what the cache held under its key
load_application_properties(cache, repo_path, lines) ==
    IF split_last(repo_path) \in {<<"api">>, <<"v1">>} THEN cache
    ELSE Put(cache, split_last(repo_path), properties_of(lines, EmptyDict))

\* resolve_property: a text that is one ${key} from end to end is looked up in
\* the table cached for the repository (None when the key is missing); any
\* other text comes back as it is
resolve_property(cache, repo_key, property_placeholder) ==
    IF Head(property_placeholder) # "${"
           \/ property_placeholder[Len(property_placeholder)] # "}"
    THEN property_placeholder
    ELSE LET property_path == SubSeq(property_placeholder, 2, Len(property_placeholder) - 1)
             properties == IF Has(cache, repo_key) THEN Get(cache, repo_key) ELSE EmptyDict
         IN  IF Has(properties, property_path) THEN Get(properties, property_path) ELSE None

\* ------------------------------------------------- the Feign client parser
FeignClient == <<"FeignClient">>

InterfaceDecl(name, annotations, methods) ==
    [kind |-> "interface", name |-> name, annotations |-> annotations,
     fields |-> <<>>, methods |-> methods]

\* isinstance(declaration, InterfaceDeclaration)
IsInterface(declaration) == "kind" \in DOMAIN declaration /\ declaration.kind = "interface"

\* self.http_method_annotations
http_method_annotations ==
    {GetMapping, PostMapping, PutMapping, DeleteMapping, PatchMapping, RequestMapping}

http_method_annotation(name) ==
    CASE name = GetMapping -> <<"GET">>
      [] name = PostMapping -> <<"POST">>
      [] name = PutMapping -> <<"PUT">>
      [] name = DeleteMapping -> <<"DELETE">>
      [] name = PatchMapping -> <<"PATCH">>
      [] name = RequestMapping -> <<"GET">>

\* for arg in ann.arguments: a value or path pair, or a literal, sets the path
RECURSIVE feign_path_of(_, _)
feign_path_of(arguments, path) ==
    IF arguments = <<>> THEN path
    ELSE feign_path_of(Tail(arguments),
            IF Head(arguments).kind = "ElementValuePair"
            THEN IF Head(arguments).name \in {<<"value">>, <<"path">>}
                 THEN Strip(Head(arguments).value, Quote) ELSE path
            ELSE IF Head(arguments).kind = "Literal"
            THEN Strip(Head(arguments).value, Quote) ELSE path)

FeignMethod(name, http_method, path, request_dto, response_dto) ==
    [name |-> name, http_method |-> http_method, path |-> path,
     request_dto |-> request_dto, response_dto |-> response_dto]

\* _parse_feign_method: the method as a list of one, or the empty list for None
\* when it has no mapping annotation; its first mapping annotation decides
parse_feign_method(method) ==
    LET hits == {i \in DOMAIN method.annotations :
                    method.annotations[i].name \in http_method_annotations}
    IN  IF hits = {} THEN <<>>
        ELSE LET ann == method.annotations[CHOOSE i \in hits : \A j \in hits : i <= j]
             IN  << FeignMethod(method.name, http_method_annotation(ann.name),
                                feign_path_of(ann.arguments, <<>>),
                                request_dto_of(method.parameters, None),
                                response_dto_of(method.return_type)) >>

RECURSIVE feign_methods_of(_, _)
feign_methods_of(methods, acc) ==
    IF methods = <<>> THEN acc
    ELSE feign_methods_of(Tail(methods), acc \o parse_feign_method(Head(methods)))

\* the arguments of @FeignClient, in order, into target, url and fallback
RECURSIVE feign_arguments_of(_, _)
feign_arguments_of(arguments, details) ==
    IF arguments = <<>> THEN details
    ELSE feign_arguments_of(Tail(arguments),
            IF Head(arguments).kind = "ElementValuePair"
            THEN IF Head(arguments).name \in {<<"value">>, <<"name">>}
                 THEN [details EXCEPT !.target_service = Strip(Head(arguments).value, Quote)]
                 ELSE IF Head(arguments).name = <<"url">>
                 THEN [details EXCEPT !.url_value = Strip(Head(arguments).value, Quote)]
                 ELSE IF Head(arguments).name = <<"fallback">>
                 THEN [details EXCEPT !.fallback_class = Head(arguments).value]
                 ELSE details
            ELSE IF Head(arguments).kind = "Literal"
            THEN [details EXCEPT !.target_service = Strip(Head(arguments).value, Quote)]
            ELSE details)

\* a url with a ${ in it is given to resolve_property under the name of the
\* repository directory; a truthy answer replaces it
resolved_url_of(url_value, cache, repo_path) ==
    IF Truthy(url_value) /\ "${" \in Range(url_value)
    THEN IF Truthy(resolve_property(cache, path_name(repo_path), url_value))
         THEN resolve_property(cache, path_name(repo_path), url_value)
         ELSE url_value
    ELSE url_value

\* the interfaces of a file that carry @FeignClient, by position
feign_interfaces(tree) ==
    {i \in DOMAIN tree : IsInterface(tree[i]) /\ HasAnnotation(tree[i], FeignClient)}

\* the first @FeignClient annotation of a declaration
feign_client_annotation(declaration) ==
    declaration.annotations[CHOOSE i \in DOMAIN declaration.annotations :
        /\ declaration.annotations[i].name = FeignClient
        /\ \A j \in 1..(i - 1) : declaration.annotations[j].name # FeignClient]

FeignClientInfo(interface_name, details, url_value, methods) ==
    [interface_name |-> interface_name, target_service |-> details.target_service,
     url_value |-> url_value, fallback_class |-> details.fallback_class,
     methods |-> methods]

\* parse_feign_client: the first interface of the file that carries
\* @FeignClient, as a list of one; the empty list for None when the file does
\* not parse or declares no such interface
parse_feign_client(file, repo_path, cache) ==
    IF file.tree = SyntaxError THEN <<>>
    ELSE IF feign_interfaces(file.tree) = {} THEN <<>>
    ELSE LET declaration ==
                file.tree[CHOOSE i \in feign_interfaces(file.tree) :
                              \A j \in feign_interfaces(file.tree) : i <= j]
             details ==
                feign_arguments_of(feign_client_annotation(declaration).arguments,
                    [target_service |-> None, url_value |-> None, fallback_class |-> None])
         IN  << FeignClientInfo(declaration.name, details,
                    resolved_url_of(details.url_value, cache, repo_path),
                    feign_methods_of(declaration.methods, <<>>)) >>

\* bool(fallback_class)
has_fallback_of(fallback_class) ==
    IF Truthy(fallback_class) THEN <<"True">> ELSE <<"False">>

\* for method in feign_client.methods: service_calls.append({...})
calls_of_client(feign_client, source_service) ==
    [i \in DOMAIN feign_client.methods |->
        [source_service |-> source_service,
         target_service |-> feign_client.target_service,
         interface_name |-> feign_client.interface_name,
         method_name |-> feign_client.methods[i].name,
         http_method |-> feign_client.methods[i].http_method,
         path |-> feign_client.methods[i].path,
         url_value |-> feign_client.url_value,
         request_dto |-> feign_client.methods[i].request_dto,
         response_dto |-> feign_client.methods[i].response_dto,
         has_fallback |-> has_fallback_of(feign_client.fallback_class)]]

\* extract_service_calls: the files in traversal order; a file whose text holds
\* @FeignClient is parsed and adds one call per parsed method; a file that
\* cannot be read raises out of the loop and the calls so far are returned
RECURSIVE extract_service_calls(_, _, _, _, _)
extract_service_calls(repo_path, tree, all_mappings, cache, service_calls) ==
    IF tree = <<>> THEN service_calls
    ELSE IF Head(tree).text = Unreadable THEN service_calls
    ELSE IF "@FeignClient" \in Head(tree).text
              /\ parse_feign_client(Head(tree), repo_path, cache) # <<>>
    THEN extract_service_calls(repo_path, Tail(tree), all_mappings, cache,
            service_calls \o calls_of_client(parse_feign_client(Head(tree), repo_path, cache)[1],
                                             get_service_name(all_mappings, repo_path)))
    ELSE extract_service_calls(repo_path, Tail(tree), all_mappings, cache, service_calls)

\* ------------------------------------------------------- the inputs
OrderDTO == <<"Order", "DTO">>
ItemDTO == <<"Item", "DTO">>
OrderResponseDTO == <<"Order", "Response", "DTO">>
GhostDTO == <<"Ghost", "DTO">>
Order == <<"Order">>
Item == <<"Item">>
Long == <<"Long">>
String == <<"String">>
id == <<"id">>
customerId == <<"customerId">>
sku == <<"sku">>
status == <<"status">>

Param(type) == [type |-> type]

\* a source file: its name, the markers its text contains, its syntax tree
JavaFile(name, text, tree) == [name |-> name, text |-> text, tree |-> tree]

OrderDTOFile ==
    JavaFile(<<"Order", "DTO", ".java">>, {},
        << ClassDecl(OrderDTO, <<>>,
              << Field(String, <<id>>, <<>>), Field(String, <<customerId>>, <<>>) >>,
              <<>>) >>)

\* a second declaration of OrderDTO, in another directory, with other fields
OrderDTOFileV2 ==
    JavaFile(<<"v2/", "Order", "DTO", ".java">>, {},
        << ClassDecl(OrderDTO, <<>>, << Field(String, <<sku>>, <<>>) >>, <<>>) >>)

ItemDTOFile ==
    JavaFile(<<"Item", "DTO", ".java">>, {},
        << ClassDecl(ItemDTO, <<>>, << Field(Long, <<sku>>, <<>>) >>, <<>>) >>)

OrderResponseDTOFile ==
    JavaFile(<<"Order", "Response", "DTO", ".java">>, {},
        << ClassDecl(OrderResponseDTO, <<>>, << Field(String, <<status>>, <<>>) >>, <<>>) >>)

OrderFile ==
    JavaFile(<<"Order", ".java">>, {"@Entity"},
        << ClassDecl(Order, <<Ann(Entity, <<>>)>>,
              << Field(Long, <<id, customerId>>, <<>>) >>, <<>>) >>)

ItemFile ==
    JavaFile(<<"Item", ".java">>, {"@Entity"},
        << ClassDecl(Item,
              << Ann(Entity, <<>>),
                 Ann(Table, <<ElementValuePair(<<"name">>, Quoted(<<"items">>))>>) >>,
              << Field(Long, <<sku>>, <<>>),
                 Field(Order, <<<<"order">>>>, <<Ann(<<"ManyToOne">>, <<>>)>>) >>,
              <<>>) >>)

OrderControllerFile ==
    JavaFile(<<"Order", "Controller", ".java">>, {"@RestController"},
        << ClassDecl(<<"Order", "Controller">>,
              << Ann(RestController, <<>>),
                 Ann(RequestMapping, <<Literal(Quoted(<<"/orders">>))>>) >>,
              <<>>,
              << Method(<<"create">>, <<Ann(PostMapping, <<Literal(Quoted(<<"/create">>))>>)>>,
                        <<Param(OrderDTO)>>, OrderResponseDTO),
                 Method(<<"get">>, <<Ann(GetMapping, <<>>)>>, <<Param(Long)>>, ItemDTO) >>) >>)

\* a controller without base path, one of whose handlers takes a DTO that no
\* file declares
ItemControllerFile ==
    JavaFile(<<"Item", "Controller", ".java">>, {"@RestController"},
        << ClassDecl(<<"Item", "Controller">>, <<Ann(RestController, <<>>)>>, <<>>,
              << Method(<<"list">>, <<Ann(RequestMapping, <<Literal(Quoted(<<"/items">>))>>)>>,
                        <<>>, ItemDTO),
                 Method(<<"remove">>, <<Ann(DeleteMapping, <<>>)>>, <<Param(GhostDTO)>>, None),
                 Method(<<"helper">>, <<>>, <<Param(ItemDTO)>>, None) >>) >>)

OrderServiceFile ==
    JavaFile(<<"Order", "Service", ".java">>, {"@Service"},
        << ClassDecl(<<"Order", "Service">>, <<Ann(Service, <<>>)>>, <<>>,
              << Method(<<"find">>, <<>>, <<Param(Long)>>, OrderDTO),
                 Method(<<"save">>, <<>>, <<Param(ItemDTO), Param(OrderDTO)>>, Order) >>) >>)

\* a file with none of the markers
UtilFile ==
    JavaFile(<<"Util", ".java">>, {},
        << ClassDecl(<<"Util">>, <<>>, <<>>, <<>>) >>)

Files ==
    {OrderDTOFile, OrderDTOFileV2, ItemDTOFile, OrderResponseDTOFile, OrderFile, ItemFile,
     OrderControllerFile, ItemControllerFile, OrderServiceFile, UtilFile}

\* a project: some of the files, in the order the traversal meets them
Projects == DistinctSeqUpTo(Files, MaxFiles)

\* the names impact analysis is asked about
QueryNames == {OrderDTO, ItemDTO, OrderResponseDTO, GhostDTO}

\* --------------------------------------------------- the repositories
InventoryServiceFile ==
    JavaFile(<<"Inventory", "Service", ".java">>, {"@Service"},
        << ClassDecl(<<"Inventory", "Service">>, <<Ann(Service, <<>>)>>, <<>>,
              << Method(<<"reserve">>, <<>>, <<Param(OrderDTO)>>, ItemDTO) >>) >>)

ServiceCall(source, target, interface, method, url, request_dto, response_dto) ==
    [source_service |-> source, target_service |-> target, interface_name |-> interface,
     method_name |-> method, http_method |-> <<"POST">>, path |-> <<"/", method[1]>>,
     url_value |-> url, request_dto |-> request_dto, response_dto |-> response_dto,
     has_fallback |-> <<"False">>]

\* a manifest entry with the source tree behind it and the remote calls its
\* Feign clients declare
Repository(name, friendly_name, service_name, base_path, tree, service_calls) ==
    [name |-> name, friendly_name |-> friendly_name, service_name |-> service_name,
     base_path |-> base_path, files |-> tree, service_calls |-> service_calls]

OrderRepository ==
    Repository(<<"order-service">>, <<"Order Service">>, <<"orders">>, <<"/api/orders">>,
        <<OrderDTOFile, OrderFile, OrderControllerFile, OrderServiceFile>>,
        << ServiceCall(<<"orders">>, <<"inventory">>, <<"InventoryClient">>, <<"reserve">>,
                       <<"http://inventory">>, OrderDTO, ItemDTO) >>)

InventoryRepository ==
    Repository(<<"inventory-service">>, <<"Inventory Service">>, <<"inventory">>,
        <<"/api/inventory">>,
        <<ItemDTOFile, ItemFile, InventoryServiceFile>>, <<>>)

BillingRepository ==
    Repository(<<"billing-service">>, <<"Billing Service">>, <<"billing">>, <<"/api/billing">>,
        <<OrderResponseDTOFile, ItemControllerFile>>,
        << ServiceCall(<<"billing">>, <<"orders">>, <<"OrderClient">>, <<"create">>,
                       <<"http://orders">>, None, OrderResponseDTO) >>)

Repositories == {OrderRepository, InventoryRepository, BillingRepository}

\* a manifest: some of the repositories, in the order of its lines
Manifests == DistinctSeqUpTo(Repositories, MaxRepos)

\* ------------------------------------------------------------- state
VARIABLES
    files,      \* the project under analysis, in traversal order
    cursor,     \* parse_project: index of the next file of the traversal
    pc,         \* parse_project: "parsing", then "done" once it has returned
    endpoints,  \* JavaSpringParser.endpoints
    dtos,       \* JavaSpringParser.dtos
    entities,   \* JavaSpringParser.entities
    services,   \* JavaSpringParser.services
    runs,       \* completed runs of analyze_dependencies
    query,      \* the last name given to get_impact_analysis
    impact,     \* what get_impact_analysis returned for it
    errors,     \* the files parse_project and parse_java_file logged an error for
    manifest,   \* the repositories of repositories.txt, in file order
    run,        \* which run of the pipeline over the manifest this is
    entry,      \* process_repositories_file: index of the next manifest entry
    phase,      \* where the pipeline stands: "data", "calls", "report", "finished"
    store,      \* the graph database: its nodes and relationships
    first_store,\* the database as the first pipeline run left it
    dependencies, \* what get_cross_service_dependencies returned last
    checkout,   \* the directory process_local_directory is given: path, properties, files
    mappings,   \* ServiceMappingManager.mappings
    property_cache, \* ServiceMappingManager.property_cache
    service_calls,  \* what extract_service_calls returned
    feign_pc,   \* process_local_directory: "start", "extract", "done"
    accessible, \* whether the file given to process_repositories_file can be opened
    connection, \* the driver of the store: "open", or "closed" after close()
    late,       \* whether the store was read or written after close()
    work,       \* what the run did with each manifest entry, in order
    report,     \* what _generate_comprehensive_analysis wrote
    upserted,   \* the keys of the endpoint upserts issued, in order
    store_query,  \* the last name given to Neo4jStore.get_impact_analysis
    store_impact  \* what Neo4jStore.get_impact_analysis did with it

parserVars ==
    <<files, cursor, pc, endpoints, dtos, entities, services, runs, query, impact, errors>>

storeVars == <<manifest, run, entry, phase, store, first_store, dependencies>>

feignVars == <<checkout, mappings, property_cache, service_calls, feign_pc>>

runVars == <<accessible, connection, late, work, report, upserted, store_query, store_impact>>

vars == <<parserVars, storeVars, feignVars, runVars>>

\* no call of get_impact_analysis yet
NoResult == [none |-> TRUE]

\* JavaSpringParser.__init__ on a project
ParserInit ==
    /\ cursor = 1
    /\ pc = "parsing"
    /\ endpoints = <<>>
    /\ dtos = EmptyDict
    /\ entities = EmptyDict
    /\ services = EmptyDict
    /\ runs = 0
    /\ query = None
    /\ impact = NoResult
    /\ errors = <<>>

\* no pipeline: the store is not used
StoreIdle ==
    /\ manifest = <<>>
    /\ run = 1
    /\ entry = 1
    /\ phase = "idle"
    /\ store = EmptyStore
    /\ first_store = EmptyStore
    /\ dependencies = {}

\* no directory is being processed
NoCheckout == [path |-> <<>>, properties |-> <<>>, files |-> <<>>]

FeignIdle ==
    /\ checkout = NoCheckout
    /\ mappings = EmptyDict
    /\ property_cache = EmptyDict
    /\ service_calls = <<>>
    /\ feign_pc = "idle"

\* no report was written
NoReport == [none |-> TRUE]

\* no run of process_repositories_file: the driver is open and unused
RunIdle ==
    /\ accessible = TRUE
    /\ connection = "open"
    /\ late = FALSE
    /\ work = <<>>
    /\ report = NoReport
    /\ upserted = <<>>
    /\ store_query = None
    /\ store_impact = NoResult

Init ==
    /\ files \in Projects
    /\ ParserInit
    /\ StoreIdle
    /\ FeignIdle
    /\ RunIdle

\* the same markers with the entity check ahead of the controller check
route_of_entity_first(file) ==
    IF file.text = Unreadable THEN "error"
    ELSE IF "@Entity" \in file.text THEN "entity"
    ELSE IF "@RestController" \in file.text THEN "controller"
    ELSE IF Contains(file.name, DTO) THEN "dto"
    ELSE IF "@Service" \in file.text THEN "service"
    ELSE "none"

\* the error log after a classifier has asked parse_java_file for the file
logged(file, log) ==
    IF parse_java_file(file) = NoTree THEN Append(log, file.name) ELSE log

\* parse_project's choice of classifier for a file: the first of the textual
\* markers, in this fixed order, that the file shows; reading the text may raise
route_of(file) ==
    IF file.text = Unreadable THEN "error"
    ELSE IF "@RestController" \in file.text THEN "controller"
    ELSE IF "@Entity" \in file.text THEN "entity"
    ELSE IF Contains(file.name, DTO) THEN "dto"
    ELSE IF "@Service" \in file.text THEN "service"
    ELSE "none"

\* a driver that resolves the endpoint back-links as soon as a controller file
\* has been classified
RouteControllerLinking ==
    /\ pc = "parsing" /\ cursor <= Len(files)
    /\ route_of(files[cursor]) = "controller"
    /\ endpoints' = parse_controller(parse_java_file(files[cursor]), endpoints)
    /\ dtos' = link_endpoints(endpoints', dtos)
    /\ cursor' = cursor + 1
    /\ UNCHANGED <<files, pc, entities, services, runs, query, impact>>
    /\ errors' = logged(files[cursor], errors)
    /\ UNCHANGED storeVars
    /\ UNCHANGED feignVars
    /\ UNCHANGED runVars

\* parse_project, one file routed to parse_controller
RouteController ==
    /\ pc = "parsing" /\ cursor <= Len(files)
    /\ route_of(files[cursor]) = "controller"
    /\ endpoints' = parse_controller(parse_java_file(files[cursor]), endpoints)
    /\ cursor' = cursor + 1
    /\ UNCHANGED <<files, pc, dtos, entities, services, runs, query, impact>>
    /\ errors' = logged(files[cursor], errors)
    /\ UNCHANGED storeVars
    /\ UNCHANGED feignVars
    /\ UNCHANGED runVars

\* parse_project, one file routed to parse_entity
RouteEntity ==
    /\ pc = "parsing" /\ cursor <= Len(files)
    /\ route_of(files[cursor]) = "entity"
    /\ entities' = parse_entity(parse_java_file(files[cursor]), entities)
    /\ cursor' = cursor + 1
    /\ UNCHANGED <<files, pc, endpoints, dtos, services, runs, query, impact>>
    /\ errors' = logged(files[cursor], errors)
    /\ UNCHANGED storeVars
    /\ UNCHANGED feignVars
    /\ UNCHANGED runVars

\* parse_project, one file routed to parse_dto
RouteDto ==
    /\ pc = "parsing" /\ cursor <= Len(files)
    /\ route_of(files[cursor]) = "dto"
    /\ dtos' = parse_dto(parse_java_file(files[cursor]), dtos)
    /\ cursor' = cursor + 1
    /\ UNCHANGED <<files, pc, endpoints, entities, services, runs, query, impact>>
    /\ errors' = logged(files[cursor], errors)
    /\ UNCHANGED storeVars
    /\ UNCHANGED feignVars
    /\ UNCHANGED runVars

\* parse_project, one file routed to parse_service
RouteService ==
    /\ pc = "parsing" /\ cursor <= Len(files)
    /\ route_of(files[cursor]) = "service"
    /\ services' \in parse_service(parse_java_file(files[cursor]), services, entities)
    /\ cursor' = cursor + 1
    /\ UNCHANGED <<files, pc, endpoints, dtos, entities, runs, query, impact>>
    /\ errors' = logged(files[cursor], errors)
    /\ UNCHANGED storeVars
    /\ UNCHANGED feignVars
    /\ UNCHANGED runVars

\* parse_project, one file with no marker: it is not parsed
SkipFile ==
    /\ pc = "parsing" /\ cursor <= Len(files)
    /\ route_of(files[cursor]) = "none"
    /\ cursor' = cursor + 1
    /\ UNCHANGED <<files, pc, endpoints, dtos, entities, services, runs, query, impact>>
    /\ UNCHANGED errors
    /\ UNCHANGED storeVars
    /\ UNCHANGED feignVars
    /\ UNCHANGED runVars

\* parse_project, one file whose text cannot be read: the exception is caught
\* and logged, and the traversal goes on
ReadError ==
    /\ pc = "parsing" /\ cursor <= Len(files)
    /\ route_of(files[cursor]) = "error"
    /\ errors' = Append(errors, files[cursor].name)
    /\ cursor' = cursor + 1
    /\ UNCHANGED <<files, pc, endpoints, dtos, entities, services, runs, query, impact>>
    /\ UNCHANGED storeVars
    /\ UNCHANGED feignVars
    /\ UNCHANGED runVars

\* parse_project, after the last file: analyze_dependencies, then return the graph
FinishParse ==
    /\ pc = "parsing" /\ cursor > Len(files)
    /\ LET linked == analyze_dependencies(endpoints, dtos, entities)
       IN  dtos' = linked.dtos /\ entities' = linked.entities
    /\ runs' = runs + 1
    /\ pc' = "done"
    /\ UNCHANGED <<files, cursor, endpoints, services, query, impact>>
    /\ UNCHANGED errors
    /\ UNCHANGED storeVars
    /\ UNCHANGED feignVars
    /\ UNCHANGED runVars

\* analyze_dependencies called again on the same parser object
Reanalyze ==
    /\ pc = "done" /\ runs < MaxRuns
    /\ LET linked == analyze_dependencies(endpoints, dtos, entities)
       IN  dtos' = linked.dtos /\ entities' = linked.entities
    /\ runs' = runs + 1
    /\ UNCHANGED <<files, cursor, pc, endpoints, services, query, impact>>
    /\ UNCHANGED errors
    /\ UNCHANGED storeVars
    /\ UNCHANGED feignVars
    /\ UNCHANGED runVars

\* the dependency graph parse_project returned; its DTO, entity and endpoint
\* objects are the parser's own
Graph == [endpoints |-> endpoints, dtos |-> dtos, entities |-> entities,
          services |-> services]

\* DependencyVisualizer(graph).get_impact_analysis(dto_name)
ImpactAnalysis ==
    /\ pc = "done"
    /\ \E dto_name \in QueryNames :
          /\ query' = dto_name
          /\ impact' = get_impact_analysis(Graph, dto_name)
    /\ UNCHANGED <<files, cursor, pc, endpoints, dtos, entities, services, runs>>
    /\ UNCHANGED errors
    /\ UNCHANGED storeVars
    /\ UNCHANGED feignVars
    /\ UNCHANGED runVars

Next ==
    \/ RouteController
    \/ RouteEntity
    \/ RouteDto
    \/ RouteService
    \/ SkipFile
    \/ FinishParse
    \/ Reanalyze
    \/ ImpactAnalysis

Spec == Init /\ [][Next]_vars

\* ------------------------------------- the controller classifier alone
\* The annotations a handler method can carry.
HandlerAnnotations ==
    { Ann(GetMapping, <<>>),
      Ann(PostMapping, <<Literal(Quoted(<<"/create">>))>>),
      Ann(PutMapping, <<ElementValuePair(<<"value">>, Quoted(<<"/put">>))>>),
      Ann(DeleteMapping, <<>>),
      Ann(PatchMapping, <<Literal(Quoted(<<"/patch">>))>>),
      Ann(RequestMapping, <<Literal(Quoted(<<"/any">>))>>),
      Ann(Override, <<>>) }

ParameterTypes == {OrderDTO, ItemDTO, Long}

ReturnTypes == {None, OrderResponseDTO, Long}

\* the handler methods under test
Handlers ==
    { Method(<<"handle">>, anns, [i \in DOMAIN types |-> Param(types[i])], ret) :
        anns \in SeqUpTo(HandlerAnnotations, MaxAnns),
        types \in SeqUpTo(ParameterTypes, MaxParams),
        ret \in ReturnTypes }

Ping == Method(<<"ping">>, <<Ann(GetMapping, <<>>)>>, <<>>, None)

\* the annotations of the controller class: with or without a base path
ControllerAnnotations ==
    { <<Ann(RestController, <<>>)>>,
      <<Ann(RestController, <<>>), Ann(RequestMapping, <<Literal(Quoted(<<"/orders">>))>>)>> }

\* a controller file with one handler under test, alone or before Ping
ControllerFiles ==
    { JavaFile(<<"Order", "Controller", ".java">>, {"@RestController"},
               << ClassDecl(<<"Order", "Controller">>, anns, <<>>, <<h>> \o rest) >>) :
        anns \in ControllerAnnotations, h \in Handlers, rest \in {<<>>, <<Ping>>} }

InitEndpoint ==
    /\ files \in {<<f>> : f \in ControllerFiles}
    /\ ParserInit
    /\ StoreIdle
    /\ FeignIdle
    /\ RunIdle

NextEndpoint ==
    \/ RouteController
    \/ FinishParse

SpecEndpoint == InitEndpoint /\ [][NextEndpoint]_vars

\* ------------------------------------------ files that test the entities
\* the annotations a field of an entity can carry, by name
FieldAnnotations == relationship_annotations \cup {<<"JoinColumn">>}

\* the field under test: of an entity type, one or two declarators, annotated
RelationFields ==
    { Field(type, declarators, [i \in DOMAIN anns |-> Ann(anns[i], <<>>)]) :
        type \in {Order, Item},
        declarators \in {<< <<"order">> >>, << <<"first">>, <<"second">> >>},
        anns \in SeqUpTo(FieldAnnotations, MaxAnns) }

\* an entity file: an entity with an id and the field under test
EntityFiles ==
    { JavaFile(<<"Invoice", ".java">>, {"@Entity"},
               << ClassDecl(<<"Invoice">>, <<Ann(Entity, <<>>)>>,
                            << Field(Long, <<id>>, <<>>), f >>, <<>>) >>) :
        f \in RelationFields }

InitEntity ==
    /\ files \in {<<f>> : f \in EntityFiles}
    /\ ParserInit
    /\ StoreIdle
    /\ FeignIdle
    /\ RunIdle

NextEntity ==
    \/ RouteEntity
    \/ FinishParse

SpecEntity == InitEntity /\ [][NextEntity]_vars

\* ------------------------------------------ files that test the routing
PaymentDTO == <<"Payment", "DTO">>

\* a class that is both a REST controller and an entity
HybridFile ==
    JavaFile(<<"Hybrid", ".java">>, {"@RestController", "@Entity"},
        << ClassDecl(<<"Hybrid">>, <<Ann(RestController, <<>>), Ann(Entity, <<>>)>>,
              << Field(Long, <<id>>, <<>>) >>,
              << Method(<<"get">>, <<Ann(GetMapping, <<>>)>>, <<>>, None) >>) >>)

\* an entity whose class and file names end with DTO
ItemDTOEntityFile ==
    JavaFile(<<"Item", "DTO", ".java">>, {"@Entity"},
        << ClassDecl(ItemDTO, <<Ann(Entity, <<>>)>>, << Field(Long, <<sku>>, <<>>) >>, <<>>) >>)

\* a service whose file name holds DTO
DTOServiceFile ==
    JavaFile(<<"DTO", "Mapper", ".java">>, {"@Service"},
        << ClassDecl(<<"DTO", "Mapper">>, <<Ann(Service, <<>>)>>, <<>>,
              << Method(<<"map">>, <<>>, <<Param(Order)>>, OrderDTO) >>) >>)

\* a service whose text mentions @RestController in a comment
CommentedServiceFile ==
    JavaFile(<<"Audit", "Service", ".java">>, {"@RestController", "@Service"},
        << ClassDecl(<<"Audit", "Service">>, <<Ann(Service, <<>>)>>, <<>>,
              << Method(<<"audit">>, <<>>, <<Param(OrderDTO)>>, None) >>) >>)

\* a DTO class declared in a file whose name does not hold DTO
ContractsFile ==
    JavaFile(<<"Contracts", ".java">>, {},
        << ClassDecl(PaymentDTO, <<>>, << Field(String, <<id>>, <<>>) >>, <<>>) >>)

\* a file that is not valid Java: the syntax error comes after one declaration
BrokenFile(name, text, head) ==
    [name |-> name, text |-> text, tree |-> SyntaxError, head |-> head]

BrokenDTOFile ==
    BrokenFile(<<"Payment", "DTO", ".java">>, {},
        << ClassDecl(PaymentDTO, <<>>, << Field(String, <<id>>, <<>>) >>, <<>>) >>)

BrokenControllerFile ==
    BrokenFile(<<"Payment", "Controller", ".java">>, {"@RestController"},
        << ClassDecl(<<"Payment", "Controller">>, <<Ann(RestController, <<>>)>>, <<>>,
              << Method(<<"pay">>, <<Ann(PostMapping, <<>>)>>, <<Param(PaymentDTO)>>, None) >>) >>)

\* a file whose text cannot be read
UnreadableFile ==
    JavaFile(<<"Legacy", "DTO", ".java">>, Unreadable,
        << ClassDecl(<<"Legacy", "DTO">>, <<>>, << Field(String, <<id>>, <<>>) >>, <<>>) >>)

RoutingFiles ==
    {HybridFile, ItemDTOEntityFile, DTOServiceFile, CommentedServiceFile, ContractsFile,
     BrokenDTOFile, BrokenControllerFile, UnreadableFile,
     OrderDTOFile, OrderFile, OrderServiceFile, UtilFile}

RoutingProjects == DistinctSeqUpTo(RoutingFiles, MaxFiles)

InitRouting ==
    /\ files \in RoutingProjects
    /\ ParserInit
    /\ StoreIdle
    /\ FeignIdle
    /\ RunIdle

NextRouting ==
    \/ RouteController
    \/ RouteEntity
    \/ RouteDto
    \/ RouteService
    \/ SkipFile
    \/ ReadError
    \/ FinishParse

SpecRouting == InitRouting /\ [][NextRouting]_vars

\* ------------------------------------------------------- remote calls
inventory_url == <<"inventory.url">>
InventoryHost == <<"http://inv:8080">>

\* base URLs: one placeholder, a placeholder followed by a path, a literal
PlaceholderUrl == <<"${", "inventory.url", "}">>
PlaceholderPathUrl == <<"${", "inventory.url", "}", "/api">>
LiteralUrl == <<"http://inventory">>
ClientUrls == {PlaceholderUrl, PlaceholderPathUrl, LiteralUrl}

InventoryClient == <<"Inventory", "Client">>
BillingClient == <<"Billing", "Client">>
inventory_service == <<"inventory-service">>
billing_service == <<"billing-service">>
order_service == <<"order-service">>

getItem == Method(<<"getItem">>, <<Ann(GetMapping, <<Literal(Quoted(<<"/items">>))>>)>>,
                  <<>>, ItemDTO)
reserve == Method(<<"reserve">>,
                  <<Ann(PostMapping, <<ElementValuePair(<<"value">>, Quoted(<<"/reserve">>))>>)>>,
                  <<Param(OrderDTO)>>, None)
charge == Method(<<"charge">>, <<Ann(PostMapping, <<Literal(Quoted(<<"/charge">>))>>)>>,
                 <<Param(PaymentDTO)>>, None)
\* a default method of the interface: it carries no mapping annotation
describe == Method(<<"describe">>, <<>>, <<>>, None)

\* interface InventoryClient with @FeignClient(name = ..., url = ...)
InventoryClientDecl(url, methods) ==
    InterfaceDecl(InventoryClient,
        <<Ann(FeignClient, <<ElementValuePair(<<"name">>, Quoted(inventory_service)),
                             ElementValuePair(<<"url">>, Quoted(url))>>)>>,
        methods)

\* interface BillingClient with @FeignClient("billing-service")
BillingClientDecl ==
    InterfaceDecl(BillingClient,
        <<Ann(FeignClient, <<Literal(Quoted(billing_service))>>)>>, <<charge>>)

InventoryClientFile(url) ==
    JavaFile(<<"Inventory", "Client", ".java">>, {"@FeignClient"},
        << InventoryClientDecl(url, <<getItem, reserve>>) >>)

BillingClientFile ==
    JavaFile(<<"Billing", "Client", ".java">>, {"@FeignClient"}, << BillingClientDecl >>)

\* two remote-client interfaces declared in one file
ClientsFile ==
    JavaFile(<<"Clients", ".java">>, {"@FeignClient"},
        << InventoryClientDecl(LiteralUrl, <<getItem>>), BillingClientDecl >>)

\* a remote client that also declares a default method
DescribedClientFile ==
    JavaFile(<<"Described", "Client", ".java">>, {"@FeignClient"},
        << InventoryClientDecl(LiteralUrl, <<describe, getItem>>) >>)

\* a class whose comment mentions @FeignClient
MentionFile ==
    JavaFile(<<"Notes", ".java">>, {"@FeignClient"},
        << ClassDecl(<<"Notes">>, <<>>, <<>>, <<>>) >>)

BrokenClientFile ==
    JavaFile(<<"Broken", "Client", ".java">>, {"@FeignClient"}, SyntaxError)

FeignFiles ==
    {InventoryClientFile(url) : url \in ClientUrls}
        \cup {BillingClientFile, ClientsFile, DescribedClientFile, MentionFile,
              BrokenClientFile, UnreadableFile, OrderDTOFile}

\* the lines of repositories.txt
RegistryLines ==
    << << <<"services", "/", "order-service">>, <<"Orders">>, order_service, <<"/orders">> >>,
       << <<"inventory-service">>, <<"Inventory">>, inventory_service, <<"/inventory">> >> >>

\* directories: two of the registry and one it does not list
CheckoutPaths ==
    {<<"services", "/", "order-service">>, <<"inventory-service">>, <<"legacy-service">>}

\* application.properties: absent, with the key, with another key
PropertyFiles ==
    {<<>>, << <<inventory_url, InventoryHost>> >>,
     << <<<<"server.port">>, <<"8080">>>> >>}

Checkouts ==
    {[path |-> path, properties |-> properties, files |-> tree] :
        path \in CheckoutPaths, properties \in PropertyFiles,
        tree \in DistinctSeqUpTo(FeignFiles, MaxClients)}

\* process_local_directory: a directory the registry has no mapping for is
\* logged and left
MissingMapping ==
    /\ feign_pc = "start"
    /\ ~Truthy(get_service_name(mappings, checkout.path))
    /\ feign_pc' = "done"
    /\ UNCHANGED <<checkout, mappings, property_cache, service_calls>>
    /\ UNCHANGED <<parserVars, storeVars, runVars>>

\* process_local_directory: the configuration table of the directory is cached
LoadApplicationProperties ==
    /\ feign_pc = "start"
    /\ Truthy(get_service_name(mappings, checkout.path))
    /\ property_cache' = load_application_properties(property_cache, checkout.path,
                                                     checkout.properties)
    /\ feign_pc' = "extract"
    /\ UNCHANGED <<checkout, mappings, service_calls>>
    /\ UNCHANGED <<parserVars, storeVars, runVars>>

\* process_local_directory: feign_parser.extract_service_calls(dir_path)
ExtractServiceCalls ==
    /\ feign_pc = "extract"
    /\ service_calls' = extract_service_calls(checkout.path, checkout.files, mappings,
                                              property_cache, <<>>)
    /\ feign_pc' = "done"
    /\ UNCHANGED <<checkout, mappings, property_cache>>
    /\ UNCHANGED <<parserVars, storeVars, runVars>>

\* RepositoryProcessor.__init__ has loaded repositories.txt
InitFeign ==
    /\ files = <<>>
    /\ ParserInit
    /\ StoreIdle
    /\ checkout \in Checkouts
    /\ mappings = load_from_repositories_file(RegistryLines, EmptyDict)
    /\ property_cache = EmptyDict
    /\ service_calls = <<>>
    /\ feign_pc = "start"
    /\ RunIdle

NextFeign ==
    \/ MissingMapping
    \/ LoadApplicationProperties
    \/ ExtractServiceCalls

SpecFeign == InitFeign /\ [][NextFeign]_vars

\* ------------------------------------------------------- the pipeline
EmptyGraph == [endpoints |-> <<>>, dtos |-> EmptyDict, entities |-> EmptyDict,
               services |-> EmptyDict]

\* parse_project's loop body on one file: the collections it can leave
after_file(file, g) ==
    IF route_of(file) = "controller"
    THEN {[g EXCEPT !.endpoints = parse_controller(parse_java_file(file), @)]}
    ELSE IF route_of(file) = "entity"
    THEN {[g EXCEPT !.entities = parse_entity(parse_java_file(file), @)]}
    ELSE IF route_of(file) = "dto"
    THEN {[g EXCEPT !.dtos = parse_dto(parse_java_file(file), @)]}
    ELSE IF route_of(file) = "service"
    THEN {[g EXCEPT !.services = sv] : sv \in parse_service(parse_java_file(file), g.services, g.entities)}
    ELSE {g}

RECURSIVE after_files(_, _)
after_files(tree, gs) ==
    IF tree = <<>> THEN gs
    ELSE after_files(Tail(tree), UNION {after_file(Head(tree), g) : g \in gs})

\* parse_project on a source tree: the dependency graphs it can return
parse_project(tree) ==
    { [g EXCEPT !.dtos = analyze_dependencies(g.endpoints, g.dtos, g.entities).dtos,
                !.entities = analyze_dependencies(g.endpoints, g.dtos, g.entities).entities] :
        g \in after_files(tree, {EmptyGraph}) }

\* the phase of the pipeline when manifest entry e is next
PhaseAt(e) == IF e > Len(manifest) THEN "report" ELSE "data"

\* process_local_directory up to store_repository_data: the tree is parsed and
\* the graph upserted; a failure of the first query ends the entry
StoreRepositoryData ==
    /\ phase = "data" /\ entry <= Len(manifest)
    /\ \E data \in parse_project(manifest[entry].files) :
          LET repo == manifest[entry]
              res == store_repository_data(store, repo.name, repo.friendly_name,
                                           repo.service_name, repo.base_path, data)
          IN  /\ store' = res.store
              /\ IF res.raised \/ repo.service_calls = <<>>
                 THEN entry' = entry + 1 /\ phase' = PhaseAt(entry + 1)
                 ELSE entry' = entry /\ phase' = "calls"
    /\ UNCHANGED <<manifest, run, first_store, dependencies>>
    /\ UNCHANGED parserVars
    /\ UNCHANGED feignVars
    /\ UNCHANGED runVars

\* process_local_directory, the rest: store_service_calls when there are calls
StoreServiceCalls ==
    /\ phase = "calls"
    /\ store' = store_service_calls(store, manifest[entry].name,
                                    manifest[entry].service_calls).store
    /\ entry' = entry + 1
    /\ phase' = PhaseAt(entry + 1)
    /\ UNCHANGED <<manifest, run, first_store, dependencies>>
    /\ UNCHANGED parserVars
    /\ UNCHANGED feignVars
    /\ UNCHANGED runVars

\* _generate_comprehensive_analysis, after the last entry: the cross-service
\* dependencies are read from the store
GenerateAnalysis ==
    /\ phase = "report"
    /\ dependencies' = get_cross_service_dependencies(store)
    /\ first_store' = IF run = 1 THEN store ELSE first_store
    /\ phase' = "finished"
    /\ UNCHANGED <<manifest, run, entry, store>>
    /\ UNCHANGED parserVars
    /\ UNCHANGED feignVars
    /\ UNCHANGED runVars

\* the pipeline is started again on the same manifest and the same trees
StartRun ==
    /\ phase = "finished" /\ run < PipelineRuns
    /\ run' = run + 1
    /\ entry' = 1
    /\ phase' = PhaseAt(1)
    /\ UNCHANGED <<manifest, store, first_store, dependencies>>
    /\ UNCHANGED parserVars
    /\ UNCHANGED feignVars
    /\ UNCHANGED runVars

InitStore ==
    /\ files = <<>>
    /\ ParserInit
    /\ manifest \in Manifests
    /\ run = 1
    /\ entry = 1
    /\ phase = PhaseAt(1)
    /\ store = EmptyStore
    /\ first_store = EmptyStore
    /\ dependencies = {}
    /\ FeignIdle
    /\ RunIdle

NextStore ==
    \/ StoreRepositoryData
    \/ StoreServiceCalls
    \/ GenerateAnalysis
    \/ StartRun

SpecStore == InitStore /\ [][NextStore]_vars

\* ------------------------------------------------------- the adapter
\* endpoints of OrderController as later versions of the code declare them:
\* two handlers, each under several paths, methods and request types
UpsertEndpoints ==
    { [path |-> route[1], method |-> route[2],
       controller_class |-> <<"Order", "Controller">>, method_name |-> handler,
       request_dto |-> request_dto, response_dto |-> None] :
        handler \in {<<"create">>, <<"find">>},
        route \in {<< <<"/orders">>, <<"POST">> >>, << <<"/orders">>, <<"GET">> >>,
                   << <<"/orders", "/", "{id}">>, <<"GET">> >>},
        request_dto \in {None, GhostDTO} }

\* an endpoint upsert as the log keeps it: its key, and the route it carried
EndpointKey(repo_name, endpoint) ==
    [repository |-> repo_name, controller_class |-> endpoint.controller_class,
     method_name |-> endpoint.method_name, path |-> endpoint.path,
     method |-> endpoint.method]

\* the store once store_repository_data has stored the order repository
StoredOrderRepository ==
    { store_repository_data(EmptyStore, OrderRepository.name, OrderRepository.friendly_name,
                            OrderRepository.service_name, OrderRepository.base_path,
                            data).store :
        data \in parse_project(OrderRepository.files) }

\* store_repository_data's loop body: _store_endpoint on one endpoint; a
\* failure is logged and the store is as before
StoreEndpoint ==
    /\ connection = "open" /\ Len(upserted) < MaxUpserts
    /\ \E endpoint \in UpsertEndpoints :
          /\ store' = Commit(store, store_endpoint(store, OrderRepository.name, endpoint))
          /\ upserted' = Append(upserted, EndpointKey(OrderRepository.name, endpoint))
    /\ UNCHANGED <<manifest, run, entry, phase, first_store, dependencies>>
    /\ UNCHANGED <<accessible, connection, late, work, report, store_query, store_impact>>
    /\ UNCHANGED <<parserVars, feignVars>>

\* Neo4jStore.get_impact_analysis on a name
StoreImpactAnalysis ==
    /\ connection = "open"
    /\ \E name \in QueryNames :
          /\ store_query' = name
          /\ store_impact' = store_get_impact_analysis(store, name)
    /\ UNCHANGED storeVars
    /\ UNCHANGED <<accessible, connection, late, work, report, upserted>>
    /\ UNCHANGED <<parserVars, feignVars>>

InitAdapter ==
    /\ files = <<>>
    /\ ParserInit
    /\ manifest = <<>>
    /\ run = 1
    /\ entry = 1
    /\ phase = "idle"
    /\ store \in StoredOrderRepository
    /\ first_store = EmptyStore
    /\ dependencies = {}
    /\ FeignIdle
    /\ RunIdle

NextAdapter ==
    \/ StoreEndpoint
    \/ StoreImpactAnalysis

SpecAdapter == InitAdapter /\ [][NextAdapter]_vars

\* ------------------------------------------------------- the run
\* A line of the manifest: its parts as shlex.split gives them, whether the
\* directory it names (or the clone of the repository it names) can be had,
\* and the application.properties and source files found there.
Line(parts, exists, properties, tree) ==
    [parts |-> parts, exists |-> exists, properties |-> properties, files |-> tree]

catalog_service == <<"catalog-service">>
ReserveClient == <<"Reserve", "Client">>

\* interface ReserveClient with @FeignClient("inventory-service"): no url
ReserveClientFile ==
    JavaFile(<<"Reserve", "Client", ".java">>, {"@FeignClient"},
        << InterfaceDecl(ReserveClient,
              <<Ann(FeignClient, <<Literal(Quoted(inventory_service))>>)>>, <<reserve>>) >>)

OrderLine ==
    Line(<< <<"services", "/", "order-service">>, <<"Orders">>, order_service, <<"/orders">> >>,
         TRUE, << <<inventory_url, InventoryHost>> >>,
         <<OrderDTOFile, OrderServiceFile, ReserveClientFile, InventoryClientFile(PlaceholderUrl)>>)

InventoryLine ==
    Line(<< <<"inventory-service">>, <<"Inventory">>, inventory_service, <<"/inventory">> >>,
         TRUE, <<>>, <<ItemDTOFile, InventoryServiceFile>>)

\* a directory written with a trailing separator
BillingLine ==
    Line(<< <<"services", "/", "billing-service", "/">>, <<"Billing">>, billing_service,
            <<"/billing">> >>,
         TRUE, <<>>, <<OrderResponseDTOFile>>)

\* a directory under repos/
CatalogLine ==
    Line(<< <<"repos", "/", "catalog-service">>, <<"Catalog">>, catalog_service,
            <<"/catalog">> >>,
         TRUE, <<>>, <<ItemDTOFile, ItemControllerFile>>)

\* the URL of the repository that repos/catalog-service is a clone of
CatalogUrlLine ==
    Line(<< <<"https:", "/", "/", "git.example", "/", "catalog-service", ".git">> >>,
         TRUE, <<>>, <<ItemDTOFile, ItemControllerFile>>)

\* the URL of a repository that cannot be cloned, and its line in the registry
GoneUrlLine ==
    Line(<< <<"https:", "/", "/", "git.example", "/", "gone-service", ".git">> >>,
         FALSE, <<>>, <<>>)

GoneLine ==
    Line(<< <<"repos", "/", "gone-service">>, <<"Gone">>, <<"gone-service">>, <<"/gone">> >>,
         FALSE, <<>>, <<>>)

\* a directory that is not there
MissingLine ==
    Line(<< <<"missing-service">>, <<"Missing">>, <<"missing-service">>, <<"/missing">> >>,
         FALSE, <<>>, <<>>)

RunLines ==
    {OrderLine, InventoryLine, BillingLine, CatalogLine, CatalogUrlLine, GoneUrlLine, GoneLine,
     MissingLine}

RunManifests == DistinctSeqUpTo(RunLines, MaxRepos)

\* the parts of each line: what load_from_repositories_file reads
parts_of(lines) == [i \in DOMAIN lines |-> lines[i].parts]

\* a line that process_repositories_file gives to process_local_directory
IsDirectory(line) == Len(line.parts) >= 4

\* the directory an entry is analysed in: the normalised path of a directory
\* line, repos/<name> for a repository URL
directory_of(line) ==
    IF IsDirectory(line) THEN normpath(line.parts[1])
    ELSE <<"repos", "/">> \o repo_name_of_url(line.parts[1])

\* repo_name
repo_name_of(line) ==
    IF IsDirectory(line) THEN basename(directory_of(line))
    ELSE repo_name_of_url(line.parts[1])

\* all([friendly_name, service_name, base_path])
has_mapping(all_mappings, repo_path) ==
    /\ Truthy(get_friendly_name(all_mappings, repo_path))
    /\ Truthy(get_service_name(all_mappings, repo_path))
    /\ Truthy(get_base_path(all_mappings, repo_path))

\* the source files under a path once the entries have been processed: those
\* of a directory line that names the path, or of a repository the run cloned
\* there; none when the path is not there
tree_at(lines, all_mappings, path) ==
    LET there == { i \in DOMAIN lines :
                     /\ lines[i].exists
                     /\ directory_of(lines[i]) = path
                     /\ IsDirectory(lines[i]) \/ has_mapping(all_mappings, path) }
    IN  IF there = {} THEN <<>> ELSE lines[CHOOSE i \in there : TRUE].files

\* the errors parse_project logs on a tree
RECURSIVE errors_after(_, _)
errors_after(tree, log) ==
    IF tree = <<>> THEN log
    ELSE errors_after(Tail(tree),
            IF route_of(Head(tree)) = "error" THEN Append(log, Head(tree).name)
            ELSE IF route_of(Head(tree)) = "none" THEN log
            ELSE logged(Head(tree), log))

\* what the run did with an entry
Done(outcome) == [outcome |-> outcome]

\* process_local_directory and process_repository after the mapping check:
\* properties, parser, Feign client parser, then the two store operations
\* (the second when there are calls); an exception of the store ends the entry
Process(line) ==
    \E data \in parse_project(line.files) :
    \E loaded \in {load_application_properties(property_cache, directory_of(line),
                                               line.properties)} :
    \E calls \in {extract_service_calls(directory_of(line), line.files, mappings, loaded,
                                        <<>>)} :
    \E stored \in {store_repository_data(store, repo_name_of(line),
                       get_friendly_name(mappings, directory_of(line)),
                       get_service_name(mappings, directory_of(line)),
                       get_base_path(mappings, directory_of(line)), data)} :
    \E called \in {IF stored.raised \/ calls = <<>> THEN stored
                   ELSE store_service_calls(stored.store, repo_name_of(line), calls)} :
        /\ files' = line.files
        /\ cursor' = Len(line.files) + 1
        /\ pc' = "done"
        /\ runs' = 1
        /\ errors' = errors_after(line.files, errors)
        /\ endpoints' = data.endpoints /\ dtos' = data.dtos
        /\ entities' = data.entities /\ services' = data.services
        /\ property_cache' = loaded
        /\ service_calls' = calls
        /\ store' = called.store
        /\ late' = used(connection, late)
        /\ work' = Append(work, Done(IF called.raised THEN "failed" ELSE "stored"))

RunPhaseAt(e) == IF e > Len(manifest) THEN "report" ELSE "entries"

\* process_repositories_file: the manifest cannot be opened
OpenFails ==
    /\ phase = "open" /\ ~accessible
    /\ phase' = "failed"
    /\ UNCHANGED <<manifest, run, entry, store, first_store, dependencies>>
    /\ UNCHANGED <<parserVars, feignVars, runVars>>

\* process_repositories_file: the entries are read
ReadManifest ==
    /\ phase = "open" /\ accessible
    /\ phase' = RunPhaseAt(1)
    /\ UNCHANGED <<manifest, run, entry, store, first_store, dependencies>>
    /\ UNCHANGED <<parserVars, feignVars, runVars>>

\* process_repositories_file: the directory of the entry does not exist; this
\* is logged and the loop goes on
DirectoryNotFound ==
    /\ phase = "entries" /\ entry <= Len(manifest)
    /\ IsDirectory(manifest[entry]) /\ ~manifest[entry].exists
    /\ work' = Append(work, Done("not found"))
    /\ entry' = entry + 1
    /\ phase' = RunPhaseAt(entry + 1)
    /\ UNCHANGED <<manifest, run, store, first_store, dependencies>>
    /\ UNCHANGED <<accessible, connection, late, report, upserted, store_query, store_impact>>
    /\ UNCHANGED <<parserVars, feignVars>>

\* variant: an entry without mapping is parsed and stored under its name
StoreUnmapped ==
    /\ phase = "entries" /\ entry <= Len(manifest)
    /\ IsDirectory(manifest[entry]) => manifest[entry].exists
    /\ ~has_mapping(mappings, directory_of(manifest[entry]))
    /\ \E data \in parse_project(manifest[entry].files) :
          /\ endpoints' = data.endpoints /\ dtos' = data.dtos
          /\ entities' = data.entities /\ services' = data.services
          /\ store' = store_repository_data(store, repo_name_of(manifest[entry]),
                          repo_name_of(manifest[entry]), repo_name_of(manifest[entry]),
                          <<"/">>, data).store
    /\ files' = manifest[entry].files
    /\ work' = Append(work, Done("unmapped"))
    /\ entry' = entry + 1
    /\ phase' = RunPhaseAt(entry + 1)
    /\ UNCHANGED <<cursor, pc, runs, query, impact, errors>>
    /\ UNCHANGED <<manifest, run, first_store, dependencies>>
    /\ UNCHANGED <<accessible, connection, late, report, upserted, store_query, store_impact>>
    /\ UNCHANGED feignVars

\* process_local_directory and process_repository: the registry has no
\* complete mapping for the entry; this is logged and the entry is left
SkipUnmapped ==
    /\ phase = "entries" /\ entry <= Len(manifest)
    /\ IsDirectory(manifest[entry]) => manifest[entry].exists
    /\ ~has_mapping(mappings, directory_of(manifest[entry]))
    /\ work' = Append(work, Done("unmapped"))
    /\ entry' = entry + 1
    /\ phase' = RunPhaseAt(entry + 1)
    /\ UNCHANGED <<manifest, run, store, first_store, dependencies>>
    /\ UNCHANGED <<accessible, connection, late, report, upserted, store_query, store_impact>>
    /\ UNCHANGED <<parserVars, feignVars>>

\* process_local_directory on a directory with a mapping: properties, parser,
\* Feign client parser and the store; an exception of the store ends the entry
ProcessLocalDirectory ==
    /\ phase = "entries" /\ entry <= Len(manifest)
    /\ IsDirectory(manifest[entry]) /\ manifest[entry].exists
    /\ has_mapping(mappings, directory_of(manifest[entry]))
    /\ Process(manifest[entry])
    /\ entry' = entry + 1
    /\ phase' = RunPhaseAt(entry + 1)
    /\ UNCHANGED <<query, impact>>
    /\ UNCHANGED <<manifest, run, first_store, dependencies>>
    /\ UNCHANGED <<accessible, connection, report, upserted, store_query, store_impact>>
    /\ UNCHANGED <<checkout, mappings, feign_pc>>

\* process_repository on a URL with a mapping: cloning or pulling raises; the
\* exception goes up to the loop, which logs it and goes on
CloneFails ==
    /\ phase = "entries" /\ entry <= Len(manifest)
    /\ ~IsDirectory(manifest[entry]) /\ ~manifest[entry].exists
    /\ has_mapping(mappings, directory_of(manifest[entry]))
    /\ work' = Append(work, Done("failed"))
    /\ entry' = entry + 1
    /\ phase' = RunPhaseAt(entry + 1)
    /\ UNCHANGED <<manifest, run, store, first_store, dependencies>>
    /\ UNCHANGED <<accessible, connection, late, report, upserted, store_query, store_impact>>
    /\ UNCHANGED <<parserVars, feignVars>>

\* process_repository on a URL with a mapping: the repository is cloned or
\* pulled into repos/<name> and processed there
ProcessRepository ==
    /\ phase = "entries" /\ entry <= Len(manifest)
    /\ ~IsDirectory(manifest[entry]) /\ manifest[entry].exists
    /\ has_mapping(mappings, directory_of(manifest[entry]))
    /\ Process(manifest[entry])
    /\ entry' = entry + 1
    /\ phase' = RunPhaseAt(entry + 1)
    /\ UNCHANGED <<query, impact>>
    /\ UNCHANGED <<manifest, run, first_store, dependencies>>
    /\ UNCHANGED <<accessible, connection, report, upserted, store_query, store_impact>>
    /\ UNCHANGED <<checkout, mappings, feign_pc>>

\* the impact analyses the report can hold for a stored DTO: the tree under
\* repos/<repo_name> is parsed and asked about the name
analyses_of(lines, all_mappings, key) ==
    { get_impact_analysis(g, key[2]) :
        g \in parse_project(tree_at(lines, all_mappings, <<"repos", "/">> \o key[1])) }

\* dto_analysis: an analysis for every stored DTO of every stored repository
dto_analyses(st, lines, all_mappings) ==
    { f \in [stored_dtos(st) ->
                UNION {analyses_of(lines, all_mappings, key) : key \in stored_dtos(st)}] :
        \A key \in stored_dtos(st) : f[key] \in analyses_of(lines, all_mappings, key) }

\* _generate_comprehensive_analysis: the store is read, the report written and
\* the driver closed
GenerateComprehensiveAnalysis ==
    /\ phase = "report"
    /\ dependencies' = get_cross_service_dependencies(store)
    /\ \E dto_analysis \in dto_analyses(store, manifest, mappings) :
          report' = [cross_service_dependencies |-> get_cross_service_dependencies(store),
                     dto_analysis |-> dto_analysis]
    /\ late' = used(connection, late)
    /\ connection' = close(connection)
    /\ phase' = "generated"
    /\ UNCHANGED <<manifest, run, entry, store, first_store>>
    /\ UNCHANGED <<accessible, work, upserted, store_query, store_impact>>
    /\ UNCHANGED <<parserVars, feignVars>>

\* _generate_comprehensive_analysis: a read of the store or the writing of the
\* report raises; the driver is closed and the exception goes up
AnalysisFails ==
    /\ phase = "report"
    /\ late' = used(connection, late)
    /\ connection' = close(connection)
    /\ phase' = "failed"
    /\ UNCHANGED <<manifest, run, entry, store, first_store, dependencies>>
    /\ UNCHANGED <<accessible, work, report, upserted, store_query, store_impact>>
    /\ UNCHANGED <<parserVars, feignVars>>

\* process_repositories_file: finally the driver is closed; the call returns,
\* or raises what was raised
Return ==
    /\ phase \in {"generated", "failed"}
    /\ connection' = close(connection)
    /\ phase' = IF phase = "generated" THEN "returned" ELSE "aborted"
    /\ UNCHANGED <<manifest, run, entry, store, first_store, dependencies>>
    /\ UNCHANGED <<accessible, late, work, report, upserted, store_query, store_impact>>
    /\ UNCHANGED <<parserVars, feignVars>>

\* RepositoryProcessor.__init__ has loaded the mappings of the manifest
InitRun ==
    /\ files = <<>>
    /\ ParserInit
    /\ manifest \in RunManifests
    /\ run = 1
    /\ entry = 1
    /\ phase = "open"
    /\ store = EmptyStore
    /\ first_store = EmptyStore
    /\ dependencies = {}
    /\ checkout = NoCheckout
    /\ mappings = load_from_repositories_file(parts_of(manifest), EmptyDict)
    /\ property_cache = EmptyDict
    /\ service_calls = <<>>
    /\ feign_pc = "idle"
    /\ accessible \in BOOLEAN   \* whether the file given to the run can be opened
    /\ connection = "open"
    /\ late = FALSE
    /\ work = <<>>
    /\ report = NoReport
    /\ upserted = <<>>
    /\ store_query = None
    /\ store_impact = NoResult

NextRun ==
    \/ OpenFails
    \/ ReadManifest
    \/ DirectoryNotFound
    \/ SkipUnmapped
    \/ ProcessLocalDirectory
    \/ CloneFails
    \/ ProcessRepository
    \/ GenerateComprehensiveAnalysis
    \/ AnalysisFails
    \/ Return

SpecRun == InitRun /\ [][NextRun]_vars

\* ================================================================ claims
FieldNames(info) == KeySet(info.fields)

\* C1: once analyze_dependencies has run once over the accumulated collections,
\* for every DTO D and entity E: E is in D.mapped_to_entities iff D is in
\* E.mapped_to_dtos iff D and E share a field name, whatever the field types.
C1_LinkedIffFieldNamesIntersect ==
    (pc = "done" /\ runs = 1) =>
        \A d \in KeySet(dtos), e \in KeySet(entities) :
            LET shared == FieldNames(Get(dtos, d)) \cap FieldNames(Get(entities, e)) # {}
            IN  /\ (e \in Range(Get(dtos, d).mapped_to_entities)) <=> shared
                /\ (d \in Range(Get(entities, e).mapped_to_dtos)) <=> shared

\* C1 witness: after one run a DTO is linked to an entity through a field whose
\* declared types differ, and another DTO-entity pair is not linked.
C1_Witness ==
    /\ pc = "done" /\ runs = 1
    /\ \E d \in KeySet(dtos), e \in KeySet(entities) :
          /\ e \in Range(Get(dtos, d).mapped_to_entities)
          /\ d \in Range(Get(entities, e).mapped_to_dtos)
          /\ \A k \in FieldNames(Get(dtos, d)) \cap FieldNames(Get(entities, e)) :
                Get(Get(dtos, d).fields, k) # Get(Get(entities, e).fields, k)
    /\ \E d \in KeySet(dtos), e \in KeySet(entities) :
          e \notin Range(Get(dtos, d).mapped_to_entities)

\* C2: a further run of analyze_dependencies on unchanged collections leaves
\* every DTO's used_in_controllers and mapped_to_entities and every entity's
\* mapped_to_dtos as the previous run left them.
C2_RerunIsIdempotent ==
    [][(pc = "done" /\ runs' = runs + 1) => (dtos' = dtos /\ entities' = entities)]_vars

\* C4: get_impact_analysis with a name that is no key of graph.dtos returns the
\* error value, never a found result, and changes nothing of the graph.
C4_UnknownNameIsNotFound ==
    [][(query' # query \/ impact' # impact) =>
          /\ UNCHANGED <<endpoints, dtos, entities, services>>
          /\ ~Has(dtos, query') =>
                /\ DOMAIN impact' = {"error"}
                /\ impact'.error = <<"DTO ">> \o query' \o <<" not found">>]_vars

\* C4 witness: the graph holds DTOs, and a name that is none of them was asked
\* about and answered with the error value.
C4_Witness ==
    /\ pc = "done" /\ KeySet(dtos) # {}
    /\ query # None /\ ~Has(dtos, query)
    /\ "error" \in DOMAIN impact

\* the DTO asked about has no consumer: no endpoint, no service, no entity
NoConsumers(dto_name) ==
    /\ \A i \in DOMAIN endpoints :
          endpoints[i].request_dto # dto_name /\ endpoints[i].response_dto # dto_name
    /\ \A n \in KeySet(services) : dto_name \notin Range(Get(services, n).used_dtos)
    /\ Get(dtos, dto_name).mapped_to_entities = <<>>

\* C5: get_impact_analysis on a DTO that exists and has no consumer returns a
\* found result with empty endpoint, service and table lists and the DTO's own
\* field mapping.
C5_KnownWithoutConsumers ==
    (impact # NoResult /\ Has(dtos, query) /\ NoConsumers(query)) =>
        /\ "error" \notin DOMAIN impact
        /\ impact.dto = query
        /\ impact.affected_endpoints = <<>>
        /\ impact.affected_services = <<>>
        /\ impact.affected_database_tables = <<>>
        /\ impact.field_mappings = Get(dtos, query).fields

\* C5 witness: a DTO with fields and no consumer was asked about, in a graph
\* that does hold endpoints, services and entities.
C5_Witness ==
    /\ impact # NoResult /\ Has(dtos, query) /\ NoConsumers(query)
    /\ Get(dtos, query).fields # EmptyDict
    /\ endpoints # <<>> /\ KeySet(services) # {}

\* C6: for a known DTO name N the result holds exactly the endpoints whose
\* request_dto or response_dto is N, the services whose used_dtos holds N, and
\* the table names of the known entities listed in N's mapped_to_entities.
C6_ExactlyTheDependents ==
    (impact # NoResult /\ Has(dtos, query)) =>
        LET hits == {i \in DOMAIN endpoints :
                        endpoints[i].request_dto = query \/ endpoints[i].response_dto = query}
        IN  /\ "error" \notin DOMAIN impact
            /\ Len(impact.affected_endpoints) = Cardinality(hits)
            /\ Range(impact.affected_endpoints) =
                  {[method |-> endpoints[i].method, path |-> endpoints[i].path] : i \in hits}
            /\ Range(impact.affected_services) =
                  {n \in KeySet(services) : query \in Range(Get(services, n).used_dtos)}
            /\ Len(impact.affected_services) = Cardinality(Range(impact.affected_services))
            /\ Range(impact.affected_database_tables) =
                  {Get(entities, e).table_name :
                      e \in Range(Get(dtos, query).mapped_to_entities) \cap KeySet(entities)}

\* C6 witness: the DTO asked about has an endpoint, a service and a table, and
\* the graph holds an endpoint and an entity that do not depend on it.
C6_Witness ==
    /\ impact # NoResult /\ Has(dtos, query)
    /\ impact.affected_endpoints # <<>>
    /\ impact.affected_services # <<>>
    /\ impact.affected_database_tables # <<>>
    /\ Len(impact.affected_endpoints) < Len(endpoints)

\* the controller class of the file just classified, and what it emitted
Controller == files[1].tree[1]

MappingNames(method) ==
    {method.annotations[i].name : i \in DOMAIN method.annotations} \cap mapping_annotations

EmittedFor(method) ==
    {i \in DOMAIN endpoints : endpoints[i].method_name = method.name}

\* C3: every emitted endpoint's method is GET, POST, PUT, DELETE or PATCH; a
\* handler whose only mapping annotation is RequestMapping yields GET; a
\* handler with no mapping annotation yields no endpoint.
C3_MethodIsOneOfFive ==
    (cursor > 1) =>
        /\ \A i \in DOMAIN endpoints : endpoints[i].method \in HttpMethods
        /\ \A k \in DOMAIN Controller.methods :
              LET m == Controller.methods[k]
              IN  /\ MappingNames(m) = {} => EmittedFor(m) = {}
                  /\ MappingNames(m) = {RequestMapping} =>
                        /\ EmittedFor(m) # {}
                        /\ \A i \in EmittedFor(m) : endpoints[i].method = <<"GET">>

\* C3 witness: a handler with RequestMapping alone was emitted as GET, beside
\* another endpoint.
C3_Witness ==
    /\ cursor > 1
    /\ MappingNames(Controller.methods[1]) = {RequestMapping}
    /\ Len(endpoints) = 2
    /\ endpoints[1].method = <<"GET">>

\* the literal arguments of a handler's first mapping annotation
FirstMapping(method) ==
    method.annotations[CHOOSE i \in DOMAIN method.annotations :
        /\ method.annotations[i].name \in mapping_annotations
        /\ \A j \in 1..(i - 1) : method.annotations[j].name \notin mapping_annotations]

\* the controller of the scenario: base path /orders, a POST handler /create
\* taking an OrderDTO and returning an OrderResponseDTO
IsOrdersCreate ==
    /\ Controller.annotations = <<Ann(RestController, <<>>),
            Ann(RequestMapping, <<Literal(Quoted(<<"/orders">>))>>)>>
    /\ Controller.methods =
          << Method(<<"handle">>, <<Ann(PostMapping, <<Literal(Quoted(<<"/create">>))>>)>>,
                    <<Param(OrderDTO)>>, OrderResponseDTO) >>

\* C9: an endpoint's path is the controller's base path followed by the
\* handler's own path literal (nothing when its first mapping annotation has no
\* literal argument), unnormalised; base path /orders with a POST
\* handler /create (OrderDTO in, OrderResponseDTO out) yields exactly the one
\* endpoint {POST, /orders/create, OrderDTO, OrderResponseDTO}.
C9_PathIsBaseThenFragment ==
    (cursor > 1) =>
        /\ \A k \in DOMAIN Controller.methods :
              LET m == Controller.methods[k]
                  base == IF Len(Controller.annotations) = 2 THEN <<"/orders">> ELSE <<>>
              IN  MappingNames(m) # {} =>
                    \A i \in EmittedFor(m) :
                        endpoints[i].path =
                            base \o (CASE FirstMapping(m).name = PostMapping -> <<"/create">>
                                       [] FirstMapping(m).name = PatchMapping -> <<"/patch">>
                                       [] FirstMapping(m).name = RequestMapping -> <<"/any">>
                                       [] FirstMapping(m).name \in {GetMapping, DeleteMapping,
                                                                 PutMapping} -> <<>>)
        /\ IsOrdersCreate =>
              endpoints = << [path |-> <<"/orders", "/create">>,
                              method |-> <<"POST">>,
                              controller_class |-> <<"Order", "Controller">>,
                              method_name |-> <<"handle">>,
                              request_dto |-> OrderDTO,
                              response_dto |-> OrderResponseDTO,
                              service_calls |-> <<>>] >>

\* C9 witness: the scenario's controller was classified and emitted an endpoint.
C9_Witness ==
    cursor > 1 /\ IsOrdersCreate /\ Len(endpoints) = 1

\* the parameter types of a method that end with DTO, in declaration order
DtoParameters(method) ==
    SelectSeq([i \in DOMAIN method.parameters |-> method.parameters[i].type],
              LAMBDA t : EndsWith(t, DTO))

\* C10: the request_dto of a handler with several parameters whose type names
\* end with DTO is the type of the first of them.
C10_FirstDtoParameterWins ==
    (cursor > 1) =>
        \A k \in DOMAIN Controller.methods :
            LET m == Controller.methods[k]
            IN  DtoParameters(m) # <<>> =>
                    \A i \in EmittedFor(m) : endpoints[i].request_dto = Head(DtoParameters(m))

\* C7: running the whole pipeline a second time over the same manifest and the
\* same source trees leaves the store with the nodes and edges the first run
\* left: nothing is added, nothing is duplicated.
C7_SecondRunChangesNothing ==
    (run >= 2 /\ phase = "finished") => store = first_store

\* a service, by name, as a node of the store that belongs to repository r
ServiceIn(st, s, r) ==
    /\ st.nodes[s].label = "Service" /\ st.nodes[r].label = "Repository"
    /\ \E i \in EdgesOfType(st, "BELONGS_TO") : st.edges[i].src = s /\ st.edges[i].dst = r

UsesDto(st, s, d) ==
    /\ st.nodes[d].label = "DTO"
    /\ \E i \in EdgesOfType(st, "USES_DTO") : st.edges[i].src = s /\ st.edges[i].dst = d

\* C8: once two repositories are stored, each with a service that references
\* the same DTO, get_cross_service_dependencies returns a triple (service,
\* service, DTO) for the pair; and it never returns a triple whose two services
\* are of the same repository.
C8_SharedDtoIsReported ==
    (phase = "finished") =>
        /\ \A s1, s2, r1, r2, d \in DOMAIN store.nodes :
              (/\ r1 # r2 /\ s1 # s2
               /\ ServiceIn(store, s1, r1) /\ ServiceIn(store, s2, r2)
               /\ UsesDto(store, s1, d) /\ UsesDto(store, s2, d)) =>
                    \E row \in dependencies :
                        /\ row.from_service = store.nodes[s1].props.name
                        /\ row.to_service = store.nodes[s2].props.name
                        /\ row.dto = store.nodes[d].props.name
        /\ \A row \in dependencies : row.from_repo # row.to_repo

\* the position of a file in the traversal, 0 when the project lacks it
PositionOf(file) ==
    IF \E i \in DOMAIN files : files[i] = file
    THEN CHOOSE i \in DOMAIN files : files[i] = file
    ELSE 0

\* C11: when two files of one parse_project run declare a DTO of the same name,
\* the DTO collection afterwards holds exactly the fields of the file processed
\* later; no field of the earlier declaration survives.
C11_LaterDeclarationWins ==
    (cursor > Len(files) /\ PositionOf(OrderDTOFile) > 0 /\ PositionOf(OrderDTOFileV2) > 0) =>
        Get(dtos, OrderDTO).fields =
            IF PositionOf(OrderDTOFile) < PositionOf(OrderDTOFileV2)
            THEN [keys |-> <<sku>>, val |-> <<String>>]
            ELSE [keys |-> <<id, customerId>>, val |-> <<String, String>>]

\* C11 witness: the traversal met the first declaration of OrderDTO, then the
\* second, and has returned.
C11_Witness ==
    /\ pc = "done"
    /\ 0 < PositionOf(OrderDTOFile) /\ PositionOf(OrderDTOFile) < PositionOf(OrderDTOFileV2)
    /\ KeySet(Get(dtos, OrderDTO).fields) = {sku}

\* the declarations of the files of the project that can be read and parsed
Declarations ==
    UNION {Range(files[i].tree) :
              i \in {j \in DOMAIN files :
                        files[j].tree # SyntaxError /\ files[j].text # Unreadable}}

\* the types a declaration's methods mention
MentionedTypes(c) == UNION {types_of_method(c.methods[k]) : k \in DOMAIN c.methods}

\* C12: whatever the order in which parse_project meets the files, each
\* service's used_entities is the set of the types its methods take or return
\* that name an entity of the final entity collection.
C12_UsedEntitiesIgnoreOrder ==
    (pc = "done") =>
        \A c \in Declarations :
            (HasAnnotation(c, Service) /\ Has(services, c.name)) =>
                Range(Get(services, c.name).used_entities) =
                    {t \in MentionedTypes(c) : Has(entities, t)}

\* C13: parse_project hands each file to at most one classifier, the first of
\* controller, entity, DTO-by-name, service whose marker the file shows; a file
\* showing several markers is processed by that one alone, and no error is
\* logged for it.
C13_OneClassifierByPriority ==
    [][(pc = "parsing" /\ cursor' = cursor + 1 /\ files[cursor].text # Unreadable) =>
          LET f == files[cursor]
              controller == "@RestController" \in f.text
              entity == ~controller /\ "@Entity" \in f.text
              dto == ~controller /\ ~entity /\ Contains(f.name, DTO)
              service == ~controller /\ ~entity /\ ~dto /\ "@Service" \in f.text
          IN  /\ controller => UNCHANGED <<dtos, entities, services>>
              /\ entity => UNCHANGED <<endpoints, dtos, services>>
              /\ dto => UNCHANGED <<endpoints, entities, services>>
              /\ service => UNCHANGED <<endpoints, dtos, entities>>
              /\ ~(controller \/ entity \/ dto \/ service) =>
                    UNCHANGED <<endpoints, dtos, entities, services>>
              /\ f = HybridFile => Len(endpoints') = Len(endpoints) + 1
              /\ f = ItemDTOEntityFile => Has(entities', ItemDTO)
              /\ f = OrderServiceFile => Has(services', <<"Order", "Service">>)
              /\ f = OrderDTOFile => Has(dtos', OrderDTO)
              /\ f.tree # SyntaxError => errors' = errors]_vars

\* C13 witness: a file that is a controller and an entity at once, and a file
\* that is an entity named like a DTO, went each to one classifier.
C13_Witness ==
    /\ cursor = 3 /\ files[1] = HybridFile /\ files[2] = ItemDTOEntityFile
    /\ Len(endpoints) = 1 /\ KeySet(entities) = {ItemDTO} /\ dtos = EmptyDict
    /\ errors = <<>>

\* the role of a declaration by its own markers, in the fixed priority
RealRole(c) ==
    IF HasAnnotation(c, RestController) THEN "controller"
    ELSE IF HasAnnotation(c, Entity) THEN "entity"
    ELSE IF EndsWith(c.name, DTO) THEN "dto"
    ELSE IF HasAnnotation(c, Service) THEN "service"
    ELSE "none"

DeclaredAs(role) == {c.name : c \in {d \in Declarations : RealRole(d) = role}}

\* C14: the textual pre-filter leaves the collections a driver would leave that
\* parses every file and classifies each declaration by its real markers in the
\* same priority; a class whose name ends with DTO and that is neither a
\* controller nor an entity is registered as a DTO.
C14_PrefilterPreservesClassification ==
    (pc = "done") =>
        /\ KeySet(dtos) = DeclaredAs("dto")
        /\ KeySet(entities) = DeclaredAs("entity")
        /\ KeySet(services) = DeclaredAs("service")
        /\ {endpoints[i].controller_class : i \in DOMAIN endpoints} \subseteq
              DeclaredAs("controller")

\* the file cannot be read, or cannot be parsed
Bad(file) == file.text = Unreadable \/ file.tree = SyntaxError

\* C15: a file that cannot be read or parsed leaves the four collections as
\* they were and the traversal goes on: parse_project returns only after the
\* last file, with every good file after a bad one processed.
C15_BadFileIsSkipped ==
    [][/\ (pc = "parsing" /\ cursor' # cursor /\ Bad(files[cursor])) =>
            /\ UNCHANGED <<endpoints, dtos, entities, services>>
            /\ cursor' = cursor + 1 /\ pc' = "parsing"
       /\ (pc = "parsing" /\ pc' = "done") =>
            /\ cursor = Len(files) + 1
            /\ \A i \in DOMAIN files :
                  /\ files[i] = OrderDTOFile => Has(dtos', OrderDTO)
                  /\ files[i] = OrderFile => Has(entities', Order)
                  /\ files[i] = OrderServiceFile => Has(services', <<"Order", "Service">>)
                  /\ files[i] = HybridFile =>
                        \E k \in DOMAIN endpoints' :
                            endpoints'[k].controller_class = <<"Hybrid">>]_vars

\* C15 witness: the traversal met a file with a syntax error, then a file it
\* could not read, then a DTO file, which it registered, and returned.
C15_Witness ==
    /\ pc = "done"
    /\ Len(files) >= 3 /\ files[1] = BrokenDTOFile /\ files[2] = UnreadableFile
    /\ files[3] = OrderDTOFile
    /\ KeySet(dtos) = {OrderDTO}
    /\ errors = <<BrokenDTOFile.name, UnreadableFile.name>>

\* the controller names one run of the resolver owes a DTO: for each endpoint
\* in order, one for a request of that name and one for a response of that name
RECURSIVE BackLinks(_, _)
BackLinks(eps, name) ==
    IF eps = <<>> THEN <<>>
    ELSE (IF Head(eps).request_dto = name THEN <<Head(eps).controller_class>> ELSE <<>>)
         \o (IF Head(eps).response_dto = name THEN <<Head(eps).controller_class>> ELSE <<>>)
         \o BackLinks(Tail(eps), name)

\* C16: analyze_dependencies appends an endpoint's controller name to the
\* used_in_controllers of its request and response DTOs that are keys of the
\* DTO collection, and to nothing else; an endpoint that names an undiscovered
\* DTO keeps the name, adds no DTO entry and logs no error.
C16_BackLinksOnlyForKnownDtos ==
    [][(runs' = runs + 1) =>
          /\ endpoints' = endpoints
          /\ dtos'.keys = dtos.keys
          /\ errors' = errors
          /\ \A name \in KeySet(dtos) :
                Get(dtos', name).used_in_controllers =
                    Get(dtos, name).used_in_controllers \o BackLinks(endpoints, name)]_vars

\* C16 witness: the resolver has run over an endpoint whose request DTO no file
\* declares and an endpoint whose response DTO is known and now back-linked.
C16_Witness ==
    /\ pc = "done" /\ runs = 1
    /\ \E i \in DOMAIN endpoints :
          endpoints[i].request_dto = GhostDTO /\ ~Has(dtos, GhostDTO)
    /\ \E i \in DOMAIN endpoints :
          /\ Has(dtos, endpoints[i].response_dto)
          /\ endpoints[i].controller_class \in
                Range(Get(dtos, endpoints[i].response_dto).used_in_controllers)

\* C17: analyze_dependencies changes derived fields alone: the keys of the
\* DTO, entity and service collections, the endpoint list, the services, and
\* every DTO's name and field mapping and every entity's name, table name,
\* field mapping and relationship list are as they were.
C17_OnlyDerivedFieldsChange ==
    [][(runs' = runs + 1) =>
          /\ endpoints' = endpoints
          /\ services' = services
          /\ dtos'.keys = dtos.keys
          /\ entities'.keys = entities.keys
          /\ \A i \in DOMAIN dtos.val :
                /\ dtos'.val[i].name = dtos.val[i].name
                /\ dtos'.val[i].fields = dtos.val[i].fields
                /\ dtos'.val[i].used_in_services = dtos.val[i].used_in_services
          /\ \A j \in DOMAIN entities.val :
                /\ entities'.val[j].name = entities.val[j].name
                /\ entities'.val[j].table_name = entities.val[j].table_name
                /\ entities'.val[j].fields = entities.val[j].fields
                /\ entities'.val[j].relationships = entities.val[j].relationships]_vars

\* C17 witness: the resolver has linked a DTO to an entity that has a
\* relationship, in a graph with an endpoint that names an undiscovered DTO.
C17_Witness ==
    /\ pc = "done"
    /\ \E name \in KeySet(entities) :
          /\ Get(entities, name).mapped_to_dtos # <<>>
          /\ Get(entities, name).relationships # <<>>
    /\ \E i \in DOMAIN endpoints :
          Truthy(endpoints[i].request_dto) /\ ~Has(dtos, endpoints[i].request_dto)

\* no DTO or entity carries a derived link yet
NothingLinked ==
    /\ \A i \in DOMAIN dtos.val :
          dtos.val[i].used_in_controllers = <<>> /\ dtos.val[i].mapped_to_entities = <<>>
    /\ \A j \in DOMAIN entities.val : entities.val[j].mapped_to_dtos = <<>>

\* C18: in a parse_project run analyze_dependencies starts only after the last
\* file of the traversal has been classified, and runs once, over everything
\* accumulated: while files are being classified nothing is linked, and the
\* run that ends the traversal is the first.
C18_ResolverRunsOnceAfterTraversal ==
    [][/\ (pc = "parsing") => (runs = 0 /\ NothingLinked)
       /\ (pc = "parsing" /\ runs' # runs) =>
            (cursor = Len(files) + 1 /\ runs' = 1 /\ pc' = "done")
       /\ (pc = "parsing" /\ pc' = "done") => runs' = 1]_vars

\* C18 witness: parse_project has classified a DTO file, then a controller file
\* that uses the DTO, with nothing linked in between, and has returned with the
\* back-link made by its one resolver run.
C18_Witness ==
    /\ pc = "done" /\ runs = 1 /\ cursor = Len(files) + 1
    /\ PositionOf(OrderDTOFile) > 0
    /\ PositionOf(OrderDTOFile) < PositionOf(OrderControllerFile)
    /\ Get(dtos, OrderDTO).used_in_controllers = <<<<"Order", "Controller">>>>

\* the configuration table of the directory being processed
ConfigurationTable == properties_of(checkout.properties, EmptyDict)

\* a text with every ${key} whose key the table holds replaced by its value
RECURSIVE Substituted(_, _)
Substituted(url, table) ==
    IF url = <<>> THEN <<>>
    ELSE IF Len(url) >= 3 /\ url[1] = "${" /\ url[3] = "}" /\ Has(table, <<url[2]>>)
    THEN Get(table, <<url[2]>>) \o Substituted(SubSeq(url, 4, Len(url)), table)
    ELSE <<Head(url)>> \o Substituted(Tail(url), table)

\* the remote-client interfaces the files of a tree declare, in traversal order
RECURSIVE RemoteClients(_)
RemoteClients(tree) ==
    IF tree = <<>> THEN <<>>
    ELSE IF Head(tree).text = Unreadable \/ Head(tree).tree = SyntaxError
    THEN RemoteClients(Tail(tree))
    ELSE SelectSeq(Head(tree).tree,
                   LAMBDA d : IsInterface(d) /\ HasAnnotation(d, FeignClient))
            \o RemoteClients(Tail(tree))

\* what the @FeignClient annotation of a remote client declares
DeclaredDetails(client) ==
    feign_arguments_of(feign_client_annotation(client).arguments,
        [target_service |-> None, url_value |-> None, fallback_class |-> None])

\* the extraction of the directory has returned
Extracted == feign_pc = "done" /\ Truthy(get_service_name(mappings, checkout.path))

\* C19: the URL recorded in a remote call is the base URL its client declares
\* with each ${key} placeholder replaced by the value the configuration table
\* of the owning repository holds for key, and left as it is when the table
\* does not hold key.
C19_PlaceholderIsResolved ==
    Extracted =>
        \A i \in DOMAIN service_calls :
            \E k \in DOMAIN RemoteClients(checkout.files) :
                LET client == RemoteClients(checkout.files)[k]
                IN  /\ client.name = service_calls[i].interface_name
                    /\ service_calls[i].url_value
                          = Substituted(DeclaredDetails(client).url_value, ConfigurationTable)

\* the remote calls of one client: one for each method it declares
CallsDeclaredBy(client, source_service) ==
    [m \in DOMAIN client.methods |->
        [source_service |-> source_service,
         target_service |-> DeclaredDetails(client).target_service,
         interface_name |-> client.name,
         method_name |-> client.methods[m].name]]

RECURSIVE DeclaredCalls(_, _)
DeclaredCalls(clients, source_service) ==
    IF clients = <<>> THEN <<>>
    ELSE CallsDeclaredBy(Head(clients), source_service)
            \o DeclaredCalls(Tail(clients), source_service)

\* how often a sequence holds an element
Count(seq, x) == Cardinality({i \in DOMAIN seq : seq[i] = x})

\* the attribution of each remote call extract_service_calls returned
Attribution ==
    [i \in DOMAIN service_calls |->
        [source_service |-> service_calls[i].source_service,
         target_service |-> service_calls[i].target_service,
         interface_name |-> service_calls[i].interface_name,
         method_name |-> service_calls[i].method_name]]

\* C20: extract_service_calls returns exactly one remote call for each method
\* declared by each remote-client interface of the repository, its
\* source_service the registry's service identifier of the repository and its
\* target_service the target the client declares.
C20_OneCallPerDeclaredMethod ==
    Extracted =>
        LET declared == DeclaredCalls(RemoteClients(checkout.files),
                                      get_service_name(mappings, checkout.path))
        IN  \A call \in Range(declared) \cup Range(Attribution) :
                Count(Attribution, call) = Count(declared, call)

\* the relationship annotations of a field, by name, in declaration order
RelationshipAnnotations(field) ==
    SelectSeq([i \in DOMAIN field.annotations |-> field.annotations[i].name],
              LAMBDA a : a \in relationship_annotations)

\* the records of a relationships list that are about a field name
RecordsOf(relationships, name) ==
    SelectSeq(relationships, LAMBDA rel : rel.field = name)

\* C26: for a field of an entity that carries several relationship annotations
\* the relationships list holds at most one record for the field, the one of
\* the last of these annotations in declaration order, and the record's
\* target_entity is the declared type of the field.
C26_LastRelationshipAnnotationWins ==
    (cursor > 1) =>
        \A c \in Range(files[1].tree) :
            \A k \in DOMAIN c.fields :
                \A d \in Range(c.fields[k].declarators) :
                    LET field == c.fields[k]
                        marks == RelationshipAnnotations(field)
                        records == RecordsOf(Get(entities, c.name).relationships, d)
                    IN  IF marks = <<>> THEN records = <<>>
                        ELSE records = << [type |-> marks[Len(marks)], field |-> d,
                                           target_entity |-> field.type] >>

\* the Endpoint nodes of the store that carry a key
EndpointNodes(st, key) ==
    { n \in DOMAIN st.nodes :
        /\ st.nodes[n].label = "Endpoint"
        /\ st.nodes[n].props.repository = key.repository
        /\ st.nodes[n].props.controller_class = key.controller_class
        /\ st.nodes[n].props.method_name = key.method_name }

C25_StoreUnknownNameIsNotFound ==
    (store_query # None /\ MatchingNodes(store, "DTO", [name |-> store_query]) = {}) =>
        /\ store_impact # Raised
        /\ DOMAIN store_impact = {"error"}

\* the store holds the remote call as a ServiceCall node with a CALLS edge
\* from the definition of its source service and a TARGETS edge to the
\* definition of its target service
CallStored(st, call) ==
    \E n \in DOMAIN st.nodes :
        /\ st.nodes[n].label = "ServiceCall"
        /\ st.nodes[n].props.interface_name = call.interface_name
        /\ st.nodes[n].props.method_name = call.method_name
        /\ \E i \in EdgesOfType(st, "CALLS") :
              /\ st.edges[i].dst = n
              /\ st.nodes[st.edges[i].src].label = "ServiceDefinition"
              /\ st.nodes[st.edges[i].src].props.service_name = call.source_service
        /\ \E i \in EdgesOfType(st, "TARGETS") :
              /\ st.edges[i].src = n
              /\ st.nodes[st.edges[i].dst].label = "ServiceDefinition"
              /\ st.nodes[st.edges[i].dst].props.service_name = call.target_service

\* the services the entries of the manifest define
ManifestServices == {manifest[i].service_name : i \in DOMAIN manifest}

\* C27: once every entry of the manifest has been processed, each remote call
\* of an entry whose source and target service both have an entry is in the
\* store with its CALLS and TARGETS edges, whatever the order of the entries.
C27_CallsStoredInAnyOrder ==
    (phase \in {"report", "finished"}) =>
        \A i \in DOMAIN manifest :
            \A c \in DOMAIN manifest[i].service_calls :
                LET call == manifest[i].service_calls[c]
                IN  (call.source_service \in ManifestServices
                        /\ call.target_service \in ManifestServices)
                    => CallStored(store, call)

\* the calls were stored for a manifest that lists the target before the source
C27_TargetFirstIsStored ==
    /\ phase = "finished" /\ run = 1
    /\ manifest = <<InventoryRepository, OrderRepository>>
    /\ CallStored(store, OrderRepository.service_calls[1])

\* an upsert that would succeed on the store has nothing left to write
Written(st, tx) == tx.ok => Commit(st, tx) = st

\* every upsert of the graph and of the calls that can succeed has been made
AllAttempted(st, repo_name, data, calls) ==
    /\ \A i \in DOMAIN data.endpoints :
          Written(st, store_endpoint(st, repo_name, data.endpoints[i]))
    /\ \A i \in DOMAIN data.dtos.keys :
          Written(st, store_dto(st, repo_name, data.dtos.keys[i], data.dtos.val[i]))
    /\ \A i \in DOMAIN data.entities.keys :
          Written(st, store_entity(st, repo_name, data.entities.keys[i], data.entities.val[i]))
    /\ \A i \in DOMAIN data.services.keys :
          Written(st, store_service(st, repo_name, data.services.keys[i], data.services.val[i]))
    /\ \A i \in DOMAIN calls : Written(st, store_service_call(st, repo_name, calls[i]))

\* C21: when an entry is processed, a failing upsert (endpoint, DTO, entity,
\* service or remote call) does not keep the remaining upserts of that
\* repository from being attempted: afterwards every one of them that can
\* succeed has been written.
C21_FailedUpsertDoesNotStopTheRest ==
    [][(ProcessLocalDirectory \/ ProcessRepository) =>
          AllAttempted(store', repo_name_of(manifest[entry]),
                       [endpoints |-> endpoints', dtos |-> dtos', entities |-> entities',
                        services |-> services'], service_calls')]_vars

\* the same for the upserts of the parsed graph alone
C21_GraphUpsertsAllAttempted ==
    [][(ProcessLocalDirectory \/ ProcessRepository) =>
          AllAttempted(store', repo_name_of(manifest[entry]),
                       [endpoints |-> endpoints', dtos |-> dtos', entities |-> entities',
                        services |-> services'], <<>>)]_vars

\* an entry for which the registry has no complete mapping is next
UnmappedNext ==
    /\ phase = "entries" /\ entry <= Len(manifest)
    /\ IsDirectory(manifest[entry]) => manifest[entry].exists
    /\ ~has_mapping(mappings, directory_of(manifest[entry]))

\* C22: an entry without a service mapping is left without parsing anything
\* and without writing to the store, and the run goes on with the entry after
\* it: every entry of the manifest has been dealt with when the report is due.
C22_UnmappedEntryIsSkipped ==
    /\ [][UnmappedNext =>
            /\ UNCHANGED <<files, cursor, pc, endpoints, dtos, entities, services, runs, errors>>
            /\ UNCHANGED <<store, service_calls, property_cache>>
            /\ entry' = entry + 1
            /\ phase' = IF entry + 1 > Len(manifest) THEN "report" ELSE "entries"]_vars
    /\ [](phase = "report" => Len(work) = Len(manifest))

\* C22 witness: a repository URL without mapping was skipped with nothing
\* parsed or stored, and the directory after it was processed and stored.
C22_Witness ==
    /\ phase = "report"
    /\ manifest = <<CatalogUrlLine, InventoryLine>>
    /\ work = <<Done("unmapped"), Done("stored")>>
    /\ MatchingNodes(store, "Repository", [name |-> catalog_service]) = {}
    /\ MatchingNodes(store, "Repository", [name |-> inventory_service]) # {}

\* a directory named by the manifest is not there
SomeDirectoryMissing ==
    \E i \in DOMAIN manifest : IsDirectory(manifest[i]) /\ ~manifest[i].exists

\* C23: when the manifest cannot be opened or a directory to analyse is not
\* there, the run ends with an error: no repository was processed, nothing
\* was written and no report was produced.
C23_InaccessibleInputAborts ==
    (phase \in {"returned", "aborted"} /\ (~accessible \/ SomeDirectoryMissing)) =>
        /\ phase = "aborted"
        /\ store = EmptyStore
        /\ report = NoReport
        /\ \A i \in DOMAIN work : work[i].outcome # "stored"

\* the run aborts on a manifest that cannot be opened
C23_UnreadableManifestAborts ==
    (phase \in {"returned", "aborted"} /\ ~accessible) =>
        phase = "aborted" /\ store = EmptyStore /\ report = NoReport /\ work = <<>>

\* C28: for every directory line of the manifest whose last path segment is
\* not api or v1, the key the mapping was registered under is the key the
\* normalised path is looked up by, and the lookup succeeds, also when the
\* path ends in a separator: the run does not leave the entry as unmapped.
C28_RegisteredKeyIsLookedUpKey ==
    \A i \in DOMAIN work :
        LET path == manifest[i].parts[1]
        IN  (IsDirectory(manifest[i]) /\ split_last(path) \notin {<<"api">>, <<"v1">>}) =>
                /\ split_last(path) = split_last(normpath(path))
                /\ has_mapping(mappings, normpath(path))
                /\ work[i].outcome # "unmapped"

\* the lookup succeeds for the paths that do not end in a separator
C28_PlainPathsAreFound ==
    \A i \in DOMAIN manifest :
        LET path == manifest[i].parts[1]
        IN  (IsDirectory(manifest[i]) /\ path[Len(path)] # "/") =>
                has_mapping(mappings, normpath(path))

\* the entries that were processed as a local directory and stored under a name
StoredDirectories(repo_name) ==
    { i \in DOMAIN work :
        /\ IsDirectory(manifest[i])
        /\ repo_name_of(manifest[i]) = repo_name
        /\ work[i].outcome = "stored" }

\* C29: in the report, the analysis of every DTO stored for a repository that
\* was processed as a local directory is a found impact analysis, computed
\* from the source tree of that directory, and not a not-found error.
C29_ReportAnalysesLocalDirectories ==
    report # NoReport =>
        \A key \in DOMAIN report.dto_analysis :
            \A i \in StoredDirectories(key[1]) :
                /\ DOMAIN report.dto_analysis[key] # {"error"}
                /\ \E g \in parse_project(manifest[i].files) :
                      report.dto_analysis[key] = get_impact_analysis(g, key[2])

\* the analysis is found for a directory that lies under repos/
C29_FoundUnderRepos ==
    /\ report # NoReport
    /\ manifest = <<CatalogLine>>
    /\ \A key \in DOMAIN report.dto_analysis : DOMAIN report.dto_analysis[key] # {"error"}
    /\ DOMAIN report.dto_analysis # {}

\* C30: when process_repositories_file has returned or raised, the driver of
\* the store is closed, and no read or write of the store was issued after
\* the driver was first closed.
C30_ClosedBeforeReturn ==
    /\ phase \in {"returned", "aborted"} => connection = "closed"
    /\ ~late

\* C30 witness: the run returned after storing a repository and writing the
\* report, and the driver is closed.
C30_Witness ==
    /\ phase = "returned"
    /\ \E i \in DOMAIN work : work[i].outcome = "stored"
    /\ report # NoReport
    /\ connection = "closed"

====
